---- MODULE Spec2Model ----
(***************************************************************************)
(* State-machine model of the old-times core simulation                    *)
(* (crates/oldtimes-core): stockpiles, the grid and the pathfinding cache, *)
(* construction, production and the per-tick system schedule.              *)
(***************************************************************************)
EXTENDS Integers, Sequences, FiniteSets, TLC

(***************************************************************************)
(* Bounds of the model.                                                    *)
(***************************************************************************)
MaxCapacity == 10
MaxAmount == 12
MapWidth == 3
MapHeight == 2
MaxCacheSize == 1
MaxFindCalls == 2
MaxEdits == 1
MaxTicks == 4
MaxPlacements == 2
MaxAssignments == 1
MaxStarts == 1
MaxLumberTicks == 640
MaxTwinTicks == 10
MaxReplayEvents == 2
MaxReplayTick == 3
MaxSaveTicks == 3
MaxWalkTicks == 8
MaxWorkTicks == 205
MaxDistTicks == 102
MaxReassignments == 3
MaxTransfers == 2
MaxTransferTicks == 10

Items == {"wood", "planks"}

Min(a, b) == IF a <= b THEN a ELSE b

RECURSIVE SumOver(_, _)
SumOver(f, S) ==
    IF S = {} THEN 0
    ELSE LET k == CHOOSE x \in S : TRUE IN f[k] + SumOver(f, S \ {k})

(***************************************************************************)
(* f32 arithmetic.  A finite non-negative f32 is <<m, e>> with value       *)
(* m * 2^e, where m = 0 (zero, e = 0) or 2^23 <= m < 2^24 (a normal        *)
(* number with a 24-bit significand).  Every operation rounds to nearest,  *)
(* ties to even, as IEEE 754 binary32 does.  Subnormals, infinities and    *)
(* NaN do not occur in the quantities modelled.  All intermediate integers *)
(* stay below 2^31.                                                        *)
(***************************************************************************)
RECURSIVE Pow2(_)
Pow2(n) == IF n = 0 THEN 1 ELSE 2 * Pow2(n - 1)

F32Hidden == Pow2(23)     \* smallest normal significand
F32Limit == Pow2(24)      \* significands are below this

F32Zero == <<0, 0>>

\* round-to-nearest-even of m + rem/den (0 <= rem < den) kept at exponent e
F32Round(m, rem, den, e) ==
    LET up == (2 * rem > den) \/ (2 * rem = den /\ m % 2 = 1)
        r == IF up THEN m + 1 ELSE m
    IN IF r = F32Limit THEN <<F32Hidden, e + 1>> ELSE <<r, e>>

\* exact conversion of an integer 0 <= n < 2^24 (u32 as f32)
RECURSIVE F32Norm(_, _)
F32Norm(m, e) ==
    IF m = 0 THEN F32Zero
    ELSE IF m < F32Hidden THEN F32Norm(2 * m, e - 1)
    ELSE <<m, e>>

F32FromInt(n) == F32Norm(n, 0)

\* a / b for b > 0: shift-and-subtract long division to 24 quotient bits
RECURSIVE F32DivBits(_, _, _, _)
F32DivBits(q, r, b, k) ==
    IF k = 0 THEN <<q, r>>
    ELSE IF 2 * r >= b THEN F32DivBits(2 * q + 1, 2 * r - b, b, k - 1)
    ELSE F32DivBits(2 * q, 2 * r, b, k - 1)

F32Div(a, b) ==
    IF a[1] = 0 THEN F32Zero
    ELSE LET k == IF a[1] >= b[1] THEN 23 ELSE 24
             qr == F32DivBits(a[1] \div b[1], a[1] % b[1], b[1], k)
         IN F32Round(qr[1], qr[2], b[1], a[2] - b[2] - k)

\* a * b: 24 x 24 bit product held in two 24-bit limbs
F32Mul(a, b) ==
    IF a[1] = 0 \/ b[1] = 0 THEN F32Zero
    ELSE LET ah == a[1] \div 4096
             al == a[1] % 4096
             bh == b[1] \div 4096
             bl == b[1] % 4096
             low == al * bl
             t == ah * bl + al * bh + (low \div 4096)
             high == ah * bh + (t \div 4096)
             low24 == (t % 4096) * 4096 + (low % 4096)
         IN IF high >= F32Hidden
            THEN F32Round(high, low24, F32Limit, a[2] + b[2] + 24)
            ELSE F32Round(2 * high + (low24 \div F32Hidden),
                          low24 % F32Hidden, F32Hidden, a[2] + b[2] + 23)

\* a + b
F32Add(a, b) ==
    IF a[1] = 0 THEN b
    ELSE IF b[1] = 0 THEN a
    ELSE LET hi == IF a[2] >= b[2] THEN a ELSE b
             lo == IF a[2] >= b[2] THEN b ELSE a
             d == hi[2] - lo[2]
         IN IF d >= 25 THEN hi
            ELSE LET den == Pow2(d)
                     s == hi[1] + (lo[1] \div den)
                     rem == lo[1] % den
                 IN IF s < F32Limit
                    THEN F32Round(s, rem, den, hi[2])
                    ELSE F32Round(s \div 2, (s % 2) * den + rem, 2 * den,
                                  hi[2] + 1)

\* a >= b
F32Ge(a, b) ==
    IF b[1] = 0 THEN TRUE
    ELSE IF a[1] = 0 THEN FALSE
    ELSE a[2] > b[2] \/ (a[2] = b[2] /\ a[1] >= b[1])

\* `x as u32` for 0 <= x < 2^24: truncation toward zero
F32Trunc(a) ==
    IF a[1] = 0 \/ a[2] <= -24 THEN 0
    ELSE IF a[2] >= 0 THEN a[1] * Pow2(a[2])
    ELSE a[1] \div Pow2(0 - a[2])

F32One == F32FromInt(1)

(***************************************************************************)
(* components.rs: Position, Tile; resources.rs: MapData                    *)
(***************************************************************************)
TileTypes == {"Grass", "Water", "Stone", "Forest", "Road"}

Tile(t) == [tile_type |-> t, elevation |-> 0]

Position_new(x, y) == <<x, y>>

\* f32::INFINITY, only ever compared, never used in arithmetic
F32Infinity == <<F32Limit, 128>>

movement_cost(tile) ==
    CASE tile.tile_type = "Grass" -> F32FromInt(1)
      [] tile.tile_type = "Water" -> F32Infinity
      [] tile.tile_type = "Stone" -> F32Div(F32FromInt(3), F32FromInt(2))
      [] tile.tile_type = "Forest" -> F32FromInt(2)
      [] tile.tile_type = "Road" -> F32Div(F32FromInt(1), F32FromInt(2))

is_passable(tile) == tile.tile_type # "Water"

MapData_new(width, height) ==
    [width |-> width, height |-> height,
     tiles |-> [p \in (0..(width - 1)) \X (0..(height - 1)) |-> Tile("Grass")]]

is_valid_position(map, x, y) ==
    x >= 0 /\ y >= 0 /\ x < map.width /\ y < map.height

\* Option<&Tile>
get_tile(map, x, y) ==
    IF is_valid_position(map, x, y)
    THEN [some |-> TRUE, tile |-> map.tiles[<<x, y>>]]
    ELSE [some |-> FALSE, tile |-> Tile("Grass")]

\* set_tile that clamps the coordinates into the grid instead of refusing
set_tile_clamped(map, x, y, tile) ==
    IF map.width > 0 /\ map.height > 0
    THEN [map |-> [map EXCEPT
                     !.tiles[<<Min(IF x < 0 THEN 0 ELSE x, map.width - 1),
                               Min(IF y < 0 THEN 0 ELSE y, map.height - 1)>>]
                         = tile],
          ret |-> TRUE]
    ELSE [map |-> map, ret |-> FALSE]

set_tile(map, x, y, tile) ==
    IF is_valid_position(map, x, y)
    THEN [map |-> [map EXCEPT !.tiles[<<x, y>>] = tile], ret |-> TRUE]
    ELSE [map |-> map, ret |-> FALSE]

\* floor of the square root: sqrt() of a small integer-valued f32, cast to u32
ISqrt(n) == CHOOSE r \in 0..n : r * r <= n /\ (r + 1) * (r + 1) > n

\* pos.distance_to(&to) as u32
distance_to_u32(a, b) ==
    ISqrt((a[1] - b[1]) * (a[1] - b[1]) + (a[2] - b[2]) * (a[2] - b[2]))

\* pos.distance_to(&to) <= 1.0
within_one_tile_inclusive(a, b) ==
    (a[1] - b[1]) * (a[1] - b[1]) + (a[2] - b[2]) * (a[2] - b[2]) <= 1

\* pos.distance_to(&to) < 1.0
within_one_tile(a, b) ==
    (a[1] - b[1]) * (a[1] - b[1]) + (a[2] - b[2]) * (a[2] - b[2]) < 1

(***************************************************************************)
(* systems/pathfinding.rs: get_neighbors, find_path                        *)
(***************************************************************************)
\* for dx in -1..=1 { for dy in -1..=1 { ... } } without (0, 0)
NeighborOffsets ==
    << <<-1, -1>>, <<-1, 0>>, <<-1, 1>>, <<0, -1>>,
       <<0, 1>>, <<1, -1>>, <<1, 0>>, <<1, 1>> >>

\* (tile.movement_cost() * 100.0) as u32, for each passable tile type
StepCostTable ==
    [t \in TileTypes \ {"Water"} |->
        F32Trunc(F32Mul(movement_cost(Tile(t)), F32FromInt(100)))]

step_cost(tile) == StepCostTable[tile.tile_type]

\* the neighbours of pos from the i-th offset on, in the order of the loops
RECURSIVE get_neighbors(_, _, _)

\* get_neighbors whose diagonal steps cost the same as straight ones
neighbor_entry_flat(map, pos, i, new_pos, t) ==
    IF t.some /\ is_passable(t.tile)
    THEN <<[pos |-> new_pos, cost |-> step_cost(t.tile)]>>
         \o get_neighbors(map, pos, i + 1)
    ELSE get_neighbors(map, pos, i + 1)

\* get_neighbors that does not test is_passable
neighbor_entry_through_water(map, pos, i, new_pos, t) ==
    IF t.some
    THEN <<[pos |-> new_pos, cost |-> 100]>> \o get_neighbors(map, pos, i + 1)
    ELSE get_neighbors(map, pos, i + 1)

\* the body of the two loops for the tile t = map.get_tile(new_pos)
neighbor_entry(map, pos, i, new_pos, t) ==
    IF t.some /\ is_passable(t.tile)
    THEN <<[pos |-> new_pos,
            cost |-> (step_cost(t.tile)
                      * (IF NeighborOffsets[i][1] # 0 /\ NeighborOffsets[i][2] # 0
                         THEN 141 ELSE 100)) \div 100]>>
         \o get_neighbors(map, pos, i + 1)
    ELSE get_neighbors(map, pos, i + 1)

neighbor_at(map, pos, i, new_pos) ==
    neighbor_entry(map, pos, i, new_pos, get_tile(map, new_pos[1], new_pos[2]))

get_neighbors(map, pos, i) ==
    IF i > Len(NeighborOffsets) THEN <<>>
    ELSE neighbor_at(map, pos, i,
                     Position_new(pos[1] + NeighborOffsets[i][1],
                                  pos[2] + NeighborOffsets[i][2]))

\* a heuristic that overestimates: 1000 per tile of distance
heuristic_inadmissible(pos, to) == 1000 * distance_to_u32(pos, to)

\* |pos| pos.distance_to(&to) as u32
heuristic(pos, to) == distance_to_u32(pos, to)

\* Option<Vec<Position>>
NoPath == [some |-> FALSE, path |-> <<>>]
SomePath(p) == [some |-> TRUE, path |-> p]

(***************************************************************************)
(* pathfinding::prelude::astar, as called by find_path.  parents is the    *)
(* insertion-ordered map node -> (parent index, cost); to_see is the heap  *)
(* of (estimated_cost, cost, index).  The heap pops the smallest estimated *)
(* cost, among equals the largest cost; what it pops among entries equal   *)
(* in both is left to the heap layout and is the input `bias`.             *)
(***************************************************************************)
ParentIndex(parents, node) ==
    IF \E i \in 1..Len(parents) : parents[i].node = node
    THEN CHOOSE i \in 1..Len(parents) : parents[i].node = node
    ELSE 0

RECURSIVE reverse_path(_, _)
reverse_path(parents, index) ==
    IF index = 0 THEN <<>>
    ELSE Append(reverse_path(parents, parents[index].parent),
                parents[index].node)

\* h is popped before g
HeapBefore(h, g, bias) ==
    \/ h.est < g.est
    \/ h.est = g.est /\ h.cost > g.cost
    \/ h.est = g.est /\ h.cost = g.cost
         /\ IF bias = "low" THEN h.index <= g.index ELSE h.index >= g.index

HeapPop(to_see, bias) ==
    CHOOSE h \in to_see : \A g \in to_see : HeapBefore(h, g, bias)

\* one successor, reached at new_cost from parents[index]; n is its index in
\* parents, 0 when it is not there yet
AStarVisit(st, successor, new_cost, n, index, to) ==
    IF n = 0
    THEN [parents |-> Append(st.parents,
              [node |-> successor, parent |-> index, cost |-> new_cost]),
          to_see |-> st.to_see \cup
              {[est |-> new_cost + heuristic(successor, to),
                cost |-> new_cost, index |-> Len(st.parents) + 1]}]
    ELSE IF st.parents[n].cost > new_cost
    THEN [parents |-> [st.parents EXCEPT ![n] =
              [node |-> successor, parent |-> index, cost |-> new_cost]],
          to_see |-> st.to_see \cup
              {[est |-> new_cost + heuristic(successor, to),
                cost |-> new_cost, index |-> n]}]
    ELSE st

\* the loop over the successors of parents[index], reached at cost `cost`
RECURSIVE AStarRelax(_, _, _, _, _, _)
AStarRelax(st, succs, i, index, cost, to) ==
    IF i > Len(succs) THEN st
    ELSE AStarRelax(
           AStarVisit(st, succs[i].pos, cost + succs[i].cost,
                      ParentIndex(st.parents, succs[i].pos), index, to),
           succs, i + 1, index, cost, to)

RECURSIVE AStarLoop(_, _, _, _)

\* the body of the loop for the popped heap entry top
AStarStep(st, top, to, bias, map) ==
    IF st.parents[top.index].node = to
    THEN SomePath(reverse_path(st.parents, top.index))
    ELSE IF top.cost > st.parents[top.index].cost
    THEN AStarLoop([st EXCEPT !.to_see = @ \ {top}], to, bias, map)
    ELSE AStarLoop(
           AStarRelax([st EXCEPT !.to_see = @ \ {top}],
                      get_neighbors(map, st.parents[top.index].node, 1),
                      1, top.index, top.cost, to),
           to, bias, map)

AStarLoop(st, to, bias, map) ==
    IF st.to_see = {} THEN NoPath
    ELSE AStarStep(st, HeapPop(st.to_see, bias), to, bias, map)

\* astar(&from, |pos| get_neighbors(map, *pos),
\*       |pos| pos.distance_to(&to) as u32, |pos| *pos == to)
astar(map, from, to, bias) ==
    AStarLoop([parents |-> <<[node |-> from, parent |-> 0, cost |-> 0]>>,
               to_see |-> {[est |-> 0, cost |-> 0, index |-> 1]}],
              to, bias, map)

(***************************************************************************)
(* resources.rs: PathfindingCache                                          *)
(***************************************************************************)
PathfindingCache_new(max_size) ==
    [cache |-> <<>>, cache_hits |-> 0, cache_misses |-> 0,
     max_cache_size |-> max_size]

cache_len(c) == Cardinality(DOMAIN c.cache)

cache_get(c, from, to) ==
    IF <<from, to>> \in DOMAIN c.cache
    THEN [cache |-> [c EXCEPT !.cache_hits = @ + 1],
          result |-> SomePath(c.cache[<<from, to>>])]
    ELSE [cache |-> [c EXCEPT !.cache_misses = @ + 1],
          result |-> NoPath]

\* insert that never evicts
cache_insert_no_eviction(c, from, to, path, victim) ==
    [c EXCEPT !.cache =
        [k \in (DOMAIN c.cache) \cup {<<from, to>>} |->
            IF k = <<from, to>> THEN path ELSE c.cache[k]]]

\* victim stands for self.cache.keys().next(): any key of a non-empty map
cache_insert(c, from, to, path, victim) ==
    LET kept == IF cache_len(c) >= c.max_cache_size /\ victim \in DOMAIN c.cache
                THEN (DOMAIN c.cache) \ {victim}
                ELSE DOMAIN c.cache
    IN [c EXCEPT !.cache =
           [k \in kept \cup {<<from, to>>} |->
               IF k = <<from, to>> THEN path ELSE c.cache[k]]]

cache_clear(c) == [c EXCEPT !.cache = <<>>]

\* the rest of find_path after a cache miss: result is what astar returned
find_path_miss(c, from, to, result, victim) ==
    IF result.some
    THEN [cache |-> cache_insert(c, from, to, result.path, victim),
          result |-> result]
    ELSE [cache |-> c, result |-> NoPath]

find_path_lookup(g, map, from, to, bias, victim) ==
    IF g.result.some
    THEN [cache |-> g.cache, result |-> g.result]
    ELSE find_path_miss(g.cache, from, to, astar(map, from, to, bias), victim)

\* find_path that searches without consulting or filling the cache
find_path_uncached(c, map, from, to, bias, victim) ==
    [cache |-> [c EXCEPT !.cache_misses = @ + 1],
     result |-> astar(map, from, to, bias)]

find_path(c, map, from, to, bias, victim) ==
    find_path_lookup(cache_get(c, from, to), map, from, to, bias, victim)

VARIABLES
    stockpile,   \* components.rs Stockpile: [capacity, items]
    sp_call,     \* the last Stockpile call: operation, arguments, result, state before
    map,         \* resources.rs MapData: [width, height, tiles]
    pcache,      \* resources.rs PathfindingCache
    fp_log,      \* the last two find_path calls, the latest last
    fp_changed,  \* a tile was set or the cache cleared since the last find_path
    fp_edits,    \* number of set_tile calls made
    game_tick,   \* resources.rs GameTick: [current, target_tps]
    game_config, \* resources.rs GameConfig: [buildings, recipes]
    entities,    \* the entities of the world with their components, in spawn order
    events,      \* per event type, the events sent and not yet read
    sim_out,     \* notifications and spawns of the last update
    sim_prev,    \* entities as they were when the last update started
    sim_sent,    \* number of events the host has sent, per event type
    twin,        \* a second SimulationApp: [tick, entities, events, map, cache, out]
    replay,      \* load_and_verify_replay: the recorded events and its progress
    saved,       \* save.rs GameState written by save_game_state
    map_call     \* the last MapData call: operation, arguments, result, grid before

stockVars == <<stockpile, sp_call>>
pathVars == <<map, pcache, fp_log, fp_changed, fp_edits>>
simVars == <<game_tick, game_config, entities, events, sim_out, sim_prev, sim_sent>>
hostVars == <<twin, replay, saved, map_call>>
vars == <<stockpile, sp_call, map, pcache, fp_log, fp_changed, fp_edits,
          game_tick, game_config, entities, events, sim_out, sim_prev,
          sim_sent, twin, replay, saved, map_call>>

Stockpile_new(capacity) == [capacity |-> capacity, items |-> <<>>]

total_items(s) == SumOver(s.items, DOMAIN s.items)

\* capacity.saturating_sub(total_items())
available_space(s) ==
    IF s.capacity >= total_items(s) THEN s.capacity - total_items(s) ELSE 0

get_item_count(s, item) == IF item \in DOMAIN s.items THEN s.items[item] ELSE 0

can_store(s, item, amount) == available_space(s) >= amount

\* add_item without the available_space() cap
add_item_uncapped(s, item, amount) ==
    [stock |-> [s EXCEPT !.items =
                    [k \in (DOMAIN s.items) \cup {item} |->
                        IF k = item THEN get_item_count(s, item) + amount
                        ELSE s.items[k]]],
     ret |-> amount]

\* add_item that adds the capped amount but reports the requested one
add_item_reports_request(s, item, amount) ==
    LET available == available_space(s)
        to_add == Min(amount, available)
    IN [stock |-> [s EXCEPT !.items =
                      [k \in (DOMAIN s.items) \cup {item} |->
                          IF k = item THEN get_item_count(s, item) + to_add
                          ELSE s.items[k]]],
        ret |-> amount]

add_item(s, item, amount) ==
    LET available == available_space(s)
        to_add == Min(amount, available)
    IN [stock |-> [s EXCEPT !.items =
                      [k \in (DOMAIN s.items) \cup {item} |->
                          IF k = item THEN get_item_count(s, item) + to_add
                          ELSE s.items[k]]],
        ret |-> to_add]

remove_item(s, item, amount) ==
    LET current == get_item_count(s, item)
        to_remove == Min(amount, current)
        new_amount == current - to_remove
    IN [stock |->
            IF to_remove > 0
            THEN IF new_amount = 0
                 THEN [s EXCEPT !.items =
                          [k \in (DOMAIN s.items) \ {item} |-> s.items[k]]]
                 ELSE [s EXCEPT !.items =
                          [k \in (DOMAIN s.items) \cup {item} |->
                              IF k = item THEN new_amount ELSE s.items[k]]]
            ELSE s,
        ret |-> to_remove]

(***************************************************************************)
(* Stockpile specification: one stockpile, any sequence of calls.          *)
(***************************************************************************)
StockStart(c) ==
    /\ stockpile = Stockpile_new(c)
    /\ sp_call = [op |-> "new", item |-> "", amount |-> c, ret |-> 0,
                  before |-> Stockpile_new(c)]

\* the grid and the cache as constructed: MapData::new, PathfindingCache::new
PathStart(m) ==
    /\ map = MapData_new(MapWidth, MapHeight)
    /\ pcache = PathfindingCache_new(m)
    /\ fp_log = <<>>
    /\ fp_changed = FALSE
    /\ fp_edits = 0

\* the simulation as SimulationApp::new leaves it: tick 0 at 20 ticks per
\* second, no entity, no event
SimStart(cfg, ents, evs) ==
    /\ game_tick = [current |-> 0, target_tps |-> 20]
    /\ game_config = cfg
    /\ entities = ents
    /\ events = evs
    /\ sim_out = [building_constructed |-> <<>>, production_completed |-> <<>>,
                  task_completed |-> <<>>, placed |-> <<>>,
                  constructed_log |-> <<>>]
    /\ sim_prev = ents
    /\ sim_sent = [place_building |-> 0, assign_worker |-> 0,
                   start_production |-> 0, map_changed |-> 0]

SimNew ==
    SimStart([buildings |-> <<>>, recipes |-> <<>>], <<>>,
             [place_building |-> <<>>, assign_worker |-> <<>>,
              start_production |-> <<>>, transfer_resource |-> <<>>,
              task_completed |-> <<>>, pathfinding_request |-> <<>>,
              map_changed |-> <<>>])

\* no second simulation, no replay, nothing saved, no MapData call made
HostStart ==
    /\ twin = <<>>
    /\ replay = <<>>
    /\ saved = <<>>
    /\ map_call = <<>>

StockInit ==
    /\ \E c \in 0..MaxCapacity : StockStart(c)
    /\ PathStart(0)
    /\ SimNew
    /\ HostStart

AddItem ==
    \E item \in Items, amount \in 0..MaxAmount :
        LET r == add_item(stockpile, item, amount) IN
        /\ stockpile' = r.stock
        /\ sp_call' = [op |-> "add_item", item |-> item, amount |-> amount,
                       ret |-> r.ret, before |-> stockpile]
        /\ UNCHANGED <<pathVars, simVars, hostVars>>

RemoveItem ==
    \E item \in Items, amount \in 0..MaxAmount :
        LET r == remove_item(stockpile, item, amount) IN
        /\ stockpile' = r.stock
        /\ sp_call' = [op |-> "remove_item", item |-> item, amount |-> amount,
                       ret |-> r.ret, before |-> stockpile]
        /\ UNCHANGED <<pathVars, simVars, hostVars>>

StockNext == AddItem \/ RemoveItem

SpecStockpile == StockInit /\ [][StockNext]_vars

(***************************************************************************)
(* C1: a Stockpile built by Stockpile::new(capacity) and changed only by   *)
(* add_item and remove_item never holds more than capacity:                *)
(* total_items() <= capacity in every reachable state.                     *)
(***************************************************************************)
C1_TotalWithinCapacity ==
    /\ total_items(stockpile) <= stockpile.capacity
    /\ stockpile.capacity = sp_call.before.capacity

\* a stockpile filled to its capacity by an add_item that had to be capped
C1_Witness ==
    /\ sp_call.op = "add_item"
    /\ sp_call.amount > sp_call.ret
    /\ stockpile.capacity > 0
    /\ total_items(stockpile) = stockpile.capacity

(***************************************************************************)
(* C2: add_item(item, amount) raises the item's quantity by exactly        *)
(* min(amount, available_space()) and returns that number, leaving every   *)
(* other item alone; a stockpile of capacity 10 holding 8 units accepts at *)
(* most 2 more.                                                            *)
(***************************************************************************)
C2_AddItemExact ==
    sp_call.op = "add_item" =>
        LET b == sp_call.before
            free == b.capacity - total_items(b)
            expect == IF sp_call.amount <= free THEN sp_call.amount ELSE free
        IN /\ sp_call.ret = expect
           /\ get_item_count(stockpile, sp_call.item)
                = get_item_count(b, sp_call.item) + expect
           /\ \A k \in Items \ {sp_call.item} :
                get_item_count(stockpile, k) = get_item_count(b, k)
           /\ (b.capacity = 10 /\ total_items(b) = 8) => sp_call.ret <= 2

\* capacity 10 holding 8 units of wood, asked to take more than 2, takes 2
C2_Witness ==
    /\ sp_call.op = "add_item"
    /\ sp_call.before.capacity = 10
    /\ get_item_count(sp_call.before, "wood") = 8
    /\ total_items(sp_call.before) = 8
    /\ sp_call.amount > 2
    /\ sp_call.ret = 2
(***************************************************************************)
(* Pathfinding specifications.  SpecPath: a grid edited by set_tile and a  *)
(* cache used by find_path and emptied by clear, in any order.             *)
(* SpecSearch: find_path applied with a newly built cache to grids of      *)
(* every terrain.                                                          *)
(***************************************************************************)
PathFroms == {<<0, 0>>}
PathTos == {<<0, 0>>, <<MapWidth - 1, 0>>, <<MapWidth - 1, MapHeight - 1>>}
EditCells == {1, MapWidth - 1} \X (0..(MapHeight - 1))
EditTiles == {"Water", "Grass"}

\* the keys self.cache.keys().next() may yield
Victims(c) == IF DOMAIN c.cache = {} THEN {<<>>} ELSE DOMAIN c.cache

CallRecord(from, to, before, r) ==
    [from |-> from, to |-> to, result |-> r.result,
     hits |-> r.cache.cache_hits - before.cache_hits,
     misses |-> r.cache.cache_misses - before.cache_misses,
     clean |-> ~fp_changed]

PathInit ==
    /\ \E m \in 0..MaxCacheSize : PathStart(m)
    /\ StockStart(0)
    /\ SimNew
    /\ HostStart

FindPath ==
    /\ pcache.cache_hits + pcache.cache_misses < MaxFindCalls
    /\ \E from \in PathFroms, to \in PathTos, bias \in {"low", "high"},
          victim \in Victims(pcache) :
        \E r \in {find_path(pcache, map, from, to, bias, victim)} :
        /\ pcache' = r.cache
        /\ fp_log' = (IF fp_log = <<>> THEN <<>> ELSE <<fp_log[Len(fp_log)]>>)
                     \o <<CallRecord(from, to, pcache, r)>>
        /\ fp_changed' = FALSE
        /\ UNCHANGED <<map, fp_edits>>
    /\ UNCHANGED <<stockVars, simVars, hostVars>>

SetTile(types) ==
    /\ fp_edits < MaxEdits
    /\ \E p \in EditCells, t \in types :
        \E r \in {set_tile(map, p[1], p[2], Tile(t))} :
        /\ map' = r.map
        /\ fp_changed' = (fp_changed \/ r.map # map)
        /\ fp_edits' = fp_edits + 1
        /\ UNCHANGED <<pcache, fp_log>>
    /\ UNCHANGED <<stockVars, simVars, hostVars>>

CacheClear ==
    /\ DOMAIN pcache.cache # {}
    /\ pcache' = cache_clear(pcache)
    /\ fp_changed' = TRUE
    /\ UNCHANGED <<map, fp_log, fp_edits>>
    /\ UNCHANGED <<stockVars, simVars, hostVars>>

PathNext == FindPath \/ SetTile(EditTiles) \/ CacheClear

SpecPath == PathInit /\ [][PathNext]_vars

SearchInit ==
    PathStart(MaxCacheSize) /\ StockStart(0) /\ SimNew /\ HostStart

\* find_path with a cache just constructed
Search ==
    /\ \E from \in PathFroms, to \in PathTos, bias \in {"low", "high"} :
        \E c \in {PathfindingCache_new(MaxCacheSize)} :
        \E r \in {find_path(c, map, from, to, bias, <<>>)} :
        /\ pcache' = r.cache
        /\ fp_log' = <<CallRecord(from, to, c, r)>>
        /\ fp_changed' = FALSE
        /\ UNCHANGED <<map, fp_edits>>
    /\ UNCHANGED <<stockVars, simVars, hostVars>>

SearchNext == Search \/ SetTile(TileTypes)

SpecSearch == SearchInit /\ [][SearchNext]_vars

(***************************************************************************)
(* Routes on the grid, stated without the search: the in-bounds positions, *)
(* the 8-connected steps onto passable tiles, and the cost of a step as    *)
(* the terrain table gives it.                                             *)
(***************************************************************************)
GridPositions == (0..(map.width - 1)) \X (0..(map.height - 1))

Adjacent8(a, b) ==
    /\ a # b
    /\ a[1] - b[1] \in {-1, 0, 1}
    /\ a[2] - b[2] \in {-1, 0, 1}

\* a single step from a onto the passable in-bounds tile b
RouteStep(a, b) ==
    /\ b \in GridPositions
    /\ Adjacent8(a, b)
    /\ map.tiles[b].tile_type # "Water"

RECURSIVE ReachableFrom(_)
ReachableGrow(S, T) == IF T = S THEN S ELSE ReachableFrom(T)

ReachableFrom(S) ==
    ReachableGrow(S, S \cup {b \in GridPositions : \E a \in S : RouteStep(a, b)})

RouteExists(from, to) == to \in ReachableFrom({from})

TerrainCost ==
    [t \in {"Road", "Grass", "Stone", "Forest"} |->
        CASE t = "Road" -> 50 [] t = "Grass" -> 100
          [] t = "Stone" -> 150 [] t = "Forest" -> 200]

StepCost(a, b) ==
    IF a[1] # b[1] /\ a[2] # b[2]
    THEN (TerrainCost[map.tiles[b].tile_type] * 141) \div 100
    ELSE TerrainCost[map.tiles[b].tile_type]

IsRoute(path, from, to) ==
    /\ Len(path) >= 1
    /\ path[1] = from
    /\ path[Len(path)] = to
    /\ \A i \in 1..(Len(path) - 1) : RouteStep(path[i], path[i + 1])

RECURSIVE RouteCost(_, _)
RouteCost(path, i) ==
    IF i >= Len(path) THEN 0
    ELSE StepCost(path[i], path[i + 1]) + RouteCost(path, i + 1)

Unreached == 283 * (MapWidth * MapHeight) + 1

CheapestOf(costs, otherwise) ==
    IF costs = {} THEN otherwise
    ELSE Min(otherwise, CHOOSE c \in costs : \A e \in costs : c <= e)

\* D is a set of <<position, cheapest cost found so far>>, one per position
CostAt(D, p) == (CHOOSE r \in D : r[1] = p)[2]

\* one more step allowed on top of the cheapest costs D
CheapestExtend(D) ==
    {<<r[1],
       CheapestOf({a[2] + StepCost(a[1], r[1]) :
                     a \in {q \in D : q[2] < Unreached /\ RouteStep(q[1], r[1])}},
                  r[2])>> : r \in D}

\* cheapest cost from `from` to every position using at most n steps
RECURSIVE CheapestWithin(_, _)
CheapestWithin(from, n) ==
    IF n = 0
    THEN {<<p, IF p = from THEN 0 ELSE Unreached>> : p \in GridPositions \cup {from}}
    ELSE CheapestExtend(CheapestWithin(from, n - 1))

CheapestCost(from, to) ==
    CostAt(CheapestWithin(from, Cardinality(GridPositions)), to)

LastCall == fp_log[Len(fp_log)]

\* the state right after a find_path call: the grid is the one it was given
JustCalled == fp_log # <<>> /\ ~fp_changed

(***************************************************************************)
(* C3: after any number of inserts the cache holds at most max_cache_size  *)
(* entries, for every capacity the cache can be constructed with.          *)
(***************************************************************************)
C3_CacheWithinCapacity == cache_len(pcache) <= pcache.max_cache_size

(***************************************************************************)
(* C4: of two consecutive find_path calls with the same pair and no map    *)
(* change or cache clear in between, the first counts one miss, the second *)
(* counts one hit and no miss and returns the same path as the first.      *)
(***************************************************************************)
TwinCalls ==
    /\ Len(fp_log) = 2
    /\ fp_log[1].from = fp_log[2].from
    /\ fp_log[1].to = fp_log[2].to
    /\ fp_log[2].clean

C4_SecondCallHits ==
    (TwinCalls /\ fp_log[1].misses = 1) =>
        /\ fp_log[1].hits = 0
        /\ fp_log[2].hits = 1
        /\ fp_log[2].misses = 0
        /\ fp_log[2].result = fp_log[1].result

\* C4 as amended: the same, for a first call that misses the cache and finds
\* a route; a first call that finds no route caches nothing, so the second
\* call counts another miss and returns None again.
C4_SecondCallHitsWhenRouteFound ==
    (TwinCalls /\ fp_log[1].misses = 1) =>
        /\ fp_log[1].hits = 0
        /\ fp_log[1].result.some =>
              /\ fp_log[2].hits = 1
              /\ fp_log[2].misses = 0
              /\ fp_log[2].result = fp_log[1].result
        /\ ~fp_log[1].result.some =>
              /\ fp_log[2].hits = 0
              /\ fp_log[2].misses = 1
              /\ ~fp_log[2].result.some

C4_Witness ==
    /\ TwinCalls
    /\ fp_log[1].misses = 1
    /\ fp_log[1].result.some
    /\ Len(fp_log[1].result.path) > 1
    /\ fp_log[2].hits = 1

(***************************************************************************)
(* C5: find_path returns a path from `from` to `to` whenever a route of    *)
(* passable tiles connects them, and None when no such route exists.       *)
(***************************************************************************)
C5_PathIffRoute ==
    JustCalled =>
        IF RouteExists(LastCall.from, LastCall.to)
        THEN /\ LastCall.result.some
             /\ LastCall.result.path[1] = LastCall.from
             /\ LastCall.result.path[Len(LastCall.result.path)] = LastCall.to
        ELSE ~LastCall.result.some

(***************************************************************************)
(* C6: a path computed on a cache miss is a route of 8-connected passable  *)
(* tiles of minimum total cost, a step costing Road 50, Grass 100, Stone   *)
(* 150, Forest 200 onto the tile entered, times 141/100 (truncated) when   *)
(* diagonal.                                                               *)
(***************************************************************************)
C6_MissPathIsCheapest ==
    (JustCalled /\ LastCall.misses = 1 /\ LastCall.result.some) =>
        /\ IsRoute(LastCall.result.path, LastCall.from, LastCall.to)
        /\ RouteCost(LastCall.result.path, 1)
             = CheapestCost(LastCall.from, LastCall.to)

\* a computed path that leaves the straight line to go around a forest tile
C6_Witness ==
    /\ JustCalled
    /\ LastCall.misses = 1
    /\ LastCall.result.some
    /\ LastCall.from = <<0, 0>>
    /\ LastCall.to = <<2, 0>>
    /\ map.tiles[<<1, 0>>].tile_type = "Forest"
    /\ LastCall.result.path = << <<0, 0>>, <<1, 1>>, <<2, 0>> >>

(***************************************************************************)
(* Configuration: GameConfig with its building and recipe tables.          *)
(* construction_cost, the worker table and map_generation are read by no   *)
(* system and are left out.                                                *)
(***************************************************************************)
\* the f32 nearest to num/den seconds
Seconds(num, den) == F32Div(F32FromInt(num), F32FromInt(den))

BuildingConfig(name, time, workers, stock, size) ==
    [name |-> name, construction_time |-> time, worker_capacity |-> workers,
     stockpile_capacity |-> stock, size |-> size]

RecipeConfig(name, production_time, inputs, outputs, required_building) ==
    [name |-> name, production_time |-> production_time, inputs |-> inputs,
     outputs |-> outputs, required_building |-> required_building]

GameConfig_default ==
    [buildings |->
        ("lumberjack" :>
            BuildingConfig("Lumberjack", Seconds(30, 1), 2, 20, <<2, 2>>)) @@
        ("sawmill" :>
            BuildingConfig("Sawmill", Seconds(45, 1), 3, 30, <<3, 3>>)) @@
        ("farm" :> BuildingConfig("Farm", Seconds(40, 1), 2, 25, <<4, 4>>)) @@
        ("mill" :> BuildingConfig("Mill", Seconds(50, 1), 2, 20, <<3, 3>>)) @@
        ("bakery" :>
            BuildingConfig("Bakery", Seconds(35, 1), 3, 15, <<2, 3>>)) @@
        ("quarry" :>
            BuildingConfig("Quarry", Seconds(60, 1), 4, 40, <<3, 3>>)),
     recipes |->
        ("harvest_wood" :>
            RecipeConfig("Harvest Wood", Seconds(10, 1), <<>>,
                         "wood" :> 2, "lumberjack")) @@
        ("make_planks" :>
            RecipeConfig("Make Planks", Seconds(8, 1), "wood" :> 1,
                         "planks" :> 2, "sawmill")) @@
        ("grow_grain" :>
            RecipeConfig("Grow Grain", Seconds(20, 1), <<>>,
                         "grain" :> 3, "farm")) @@
        ("mill_flour" :>
            RecipeConfig("Mill Flour", Seconds(6, 1), "grain" :> 2,
                         "flour" :> 1, "mill")) @@
        ("bake_bread" :>
            RecipeConfig("Bake Bread", Seconds(12, 1), "flour" :> 1,
                         "bread" :> 2, "bakery")) @@
        ("mine_stone" :>
            RecipeConfig("Mine Stone", Seconds(15, 1), <<>>,
                         "stone" :> 1, "quarry"))]

\* a configuration read from a data directory: the lumberjack, the sawmill
\* and their recipes with times of a few ticks and small stockpiles
load_from_directory ==
    [buildings |->
        ("lumberjack" :>
            BuildingConfig("Lumberjack", Seconds(1, 8), 1, 3, <<2, 2>>)) @@
        ("sawmill" :>
            BuildingConfig("Sawmill", Seconds(1, 10), 2, 4, <<2, 2>>)),
     recipes |->
        ("harvest_wood" :>
            RecipeConfig("Harvest Wood", Seconds(1, 10), <<>>,
                         "wood" :> 2, "lumberjack")) @@
        ("make_planks" :>
            RecipeConfig("Make Planks", Seconds(1, 10), "wood" :> 1,
                         "planks" :> 2, "sawmill"))]

(***************************************************************************)
(* GameTick                                                                *)
(***************************************************************************)
GameTick_new(target_tps) == [current |-> 0, target_tps |-> target_tps]

\* delta_time computed as 2.0 / target_tps
delta_time_doubled(gt) == F32Div(F32FromInt(2), F32FromInt(gt.target_tps))

delta_time(gt) == F32Div(F32One, F32FromInt(gt.target_tps))

(***************************************************************************)
(* Components.  An entity is its index in the sequence of spawned          *)
(* entities; `has` names the components it carries, and a field of a       *)
(* component the entity does not carry is a placeholder nothing reads.     *)
(***************************************************************************)
NoEntity == 0

Idle == [kind |-> "Idle"]
MovingTo(target, purpose) ==
    [kind |-> "MovingTo", target |-> target, purpose |-> purpose]
Working(building, progress) ==
    [kind |-> "Working", building |-> building, progress |-> progress]
Carrying(from, to, item, amount) ==
    [kind |-> "Carrying", from |-> from, to |-> to, item |-> item,
     amount |-> amount]

GoToWork == [kind |-> "GoToWork"]
PickupResource(item, amount) ==
    [kind |-> "PickupResource", item |-> item, amount |-> amount]
DeliverResource(item, amount) ==
    [kind |-> "DeliverResource", item |-> item, amount |-> amount]
Construction == [kind |-> "Construction"]

\* Option<(String, u32)>
NoCargo == [some |-> FALSE, item |-> "", amount |-> 0]
Cargo(item, amount) == [some |-> TRUE, item |-> item, amount |-> amount]

Building_new(building_type, worker_capacity) ==
    [building_type |-> building_type, construction_progress |-> F32Zero,
     is_constructed |-> FALSE, worker_capacity |-> worker_capacity,
     assigned_workers |-> 0]

Producer_new(recipe_id) ==
    [recipe_id |-> recipe_id, production_progress |-> F32Zero,
     is_producing |-> FALSE, production_queue |-> <<>>]

Worker_new(worker_type) ==
    [worker_type |-> worker_type, assigned_building |-> NoEntity,
     current_task |-> Idle, carrying |-> NoCargo, movement_speed |-> F32One]

\* current_target_index counts from 0 as in the code
Pathfinding_new(path) ==
    [path |-> path, current_target_index |-> 0, recalculate |-> FALSE]

current_target(pf) ==
    IF pf.current_target_index < Len(pf.path)
    THEN [some |-> TRUE, position |-> pf.path[pf.current_target_index + 1]]
    ELSE [some |-> FALSE, position |-> <<0, 0>>]

\* advance_target that steps over a waypoint
advance_target_by_two(pf) ==
    IF pf.current_target_index + 2 < Len(pf.path)
    THEN [pf EXCEPT !.current_target_index = @ + 2]
    ELSE [pf EXCEPT !.current_target_index = Len(pf.path) - 1]

advance_target(pf) ==
    IF pf.current_target_index + 1 < Len(pf.path)
    THEN [pf EXCEPT !.current_target_index = @ + 1]
    ELSE pf

is_complete(pf) == pf.current_target_index >= Len(pf.path)

\* commands.spawn(bundle)
Spawn(has, position) ==
    [has |-> has, position |-> position,
     building |-> Building_new("", 0), stockpile |-> Stockpile_new(0),
     producer |-> Producer_new(""), worker |-> Worker_new(""),
     pathfinding |-> Pathfinding_new(<<>>)]

\* the entity exists and carries every component of comps (Query::get)
Has(ents, e, comps) == e \in 1..Len(ents) /\ comps \subseteq ents[e].has

(***************************************************************************)
(* The world a step works on: [tick, entities, events, map, cache, out].   *)
(* events holds, per event type, the events its reader has not read yet;   *)
(* out holds the notifications no system reads.                            *)
(***************************************************************************)
NoEvents ==
    [place_building |-> <<>>, assign_worker |-> <<>>,
     start_production |-> <<>>, transfer_resource |-> <<>>,
     task_completed |-> <<>>, pathfinding_request |-> <<>>,
     map_changed |-> <<>>]

\* what the last update emitted and spawned; constructed_log is kept for
\* the whole run
StepOutput(constructed_log) ==
    [building_constructed |-> <<>>, production_completed |-> <<>>,
     task_completed |-> <<>>, placed |-> <<>>,
     constructed_log |-> constructed_log]

(***************************************************************************)
(* advance_tick_system (PerformanceMetrics is not modelled)                *)
(***************************************************************************)
\* a tick system that counts in twos
advance_tick_skips(w) == [w EXCEPT !.tick.current = @ + 2]

advance_tick_system(w) == [w EXCEPT !.tick.current = @ + 1]

(***************************************************************************)
(* building_placement_system                                               *)
(***************************************************************************)
Abs(n) == IF n < 0 THEN 0 - n ELSE n

\* existing: the positions the query over buildings yields
is_position_occupied(existing, position, size) ==
    \E existing_pos \in existing :
        \/ existing_pos = position
        \/ /\ Abs(existing_pos[1] - position[1]) < size[1]
           /\ Abs(existing_pos[2] - position[2]) < size[2]

BuildingPositions(ents) ==
    {ents[e].position : e \in {x \in 1..Len(ents) :
                                 {"Position", "Building"} \subseteq ents[x].has}}

place_building(building_config, event) ==
    [Spawn({"Position", "Building", "Stockpile", "Blocked"}, event.position)
        EXCEPT !.building = Building_new(event.building_type,
                                         building_config.worker_capacity),
               !.stockpile = Stockpile_new(building_config.stockpile_capacity)]

\* the entities the event loop spawns; the query sees the buildings that
\* existed when the system started, spawns are deferred commands
RECURSIVE placement_loop(_, _, _, _)
placement_loop(config, existing, evs, i) ==
    IF i > Len(evs) THEN <<>>
    ELSE IF evs[i].building_type \notin DOMAIN config.buildings
    THEN placement_loop(config, existing, evs, i + 1)
    ELSE IF is_position_occupied(existing, evs[i].position,
                config.buildings[evs[i].building_type].size)
    THEN placement_loop(config, existing, evs, i + 1)
    ELSE <<place_building(config.buildings[evs[i].building_type], evs[i])>>
         \o placement_loop(config, existing, evs, i + 1)

\* apply_deferred after the system
placement_apply(w, spawned) ==
    [w EXCEPT !.entities = @ \o spawned,
              !.events.place_building = <<>>,
              !.out.placed = [k \in 1..Len(spawned) |-> Len(w.entities) + k]]

building_placement_system(w, config) ==
    placement_apply(w, placement_loop(config, BuildingPositions(w.entities),
                                      w.events.place_building, 1))

(***************************************************************************)
(* worker_assignment_system                                                *)
(***************************************************************************)
unassign_old(ents, old_building) ==
    IF old_building # NoEntity /\ Has(ents, old_building, {"Building"})
    THEN [ents EXCEPT ![old_building].building.assigned_workers =
                          IF @ > 0 THEN @ - 1 ELSE 0]
    ELSE ents

\* an assignment that does not look at the capacity of the building
assign_new_unchecked(ents, event) ==
    IF Has(ents, event.building, {"Building"})
    THEN [ents EXCEPT
             ![event.worker].worker.assigned_building = event.building,
             ![event.worker].worker.current_task = Idle,
             ![event.building].building.assigned_workers = @ + 1]
    ELSE ents

\* an assignment that leaves the worker's task as it was
assign_new_keeps_task(ents, event) ==
    IF Has(ents, event.building, {"Building"})
    THEN IF ents[event.building].building.assigned_workers
              < ents[event.building].building.worker_capacity
         THEN [ents EXCEPT
                  ![event.worker].worker.assigned_building = event.building,
                  ![event.building].building.assigned_workers = @ + 1]
         ELSE ents
    ELSE ents

assign_new(ents, event) ==
    IF Has(ents, event.building, {"Building"})
    THEN IF ents[event.building].building.assigned_workers
              < ents[event.building].building.worker_capacity
         THEN [ents EXCEPT
                  ![event.worker].worker.assigned_building = event.building,
                  ![event.worker].worker.current_task = Idle,
                  ![event.building].building.assigned_workers = @ + 1]
         ELSE ents
    ELSE ents

assign_worker(ents, event) ==
    IF Has(ents, event.worker, {"Worker"})
    THEN assign_new(unassign_old(ents,
                        ents[event.worker].worker.assigned_building), event)
    ELSE ents

RECURSIVE assignment_loop(_, _, _)
assignment_loop(ents, evs, i) ==
    IF i > Len(evs) THEN ents
    ELSE assignment_loop(assign_worker(ents, evs[i]), evs, i + 1)

worker_assignment_system(w) ==
    [w EXCEPT !.entities = assignment_loop(@, w.events.assign_worker, 1),
              !.events.assign_worker = <<>>]

(***************************************************************************)
(* start_production_system                                                 *)
(***************************************************************************)
start_production(ents, event) ==
    IF Has(ents, event.building, {"Producer"})
    THEN [ents EXCEPT
            ![event.building].producer.recipe_id = event.recipe_id,
            ![event.building].producer.production_progress = F32Zero,
            ![event.building].producer.is_producing = FALSE]
    ELSE ents

RECURSIVE start_production_loop(_, _, _)
start_production_loop(ents, evs, i) ==
    IF i > Len(evs) THEN ents
    ELSE start_production_loop(start_production(ents, evs[i]), evs, i + 1)

start_production_system(w) ==
    [w EXCEPT !.entities =
                 start_production_loop(@, w.events.start_production, 1),
              !.events.start_production = <<>>]

(***************************************************************************)
(* construction_system                                                     *)
(***************************************************************************)
BuildingConstructedEvent(ents, e) ==
    [building |-> e, building_type |-> ents[e].building.building_type,
     position |-> ents[e].position]

\* construction_progress += delta_time / construction_time, then the clamp
construction_progress_add(b, progress) ==
    IF F32Ge(progress, F32One)
    THEN [b EXCEPT !.construction_progress = F32One, !.is_constructed = TRUE]
    ELSE [b EXCEPT !.construction_progress = progress]

construct_apply(w, e, b) ==
    IF b.is_constructed
    THEN [w EXCEPT !.entities[e].building = b,
                   !.out.building_constructed =
                       Append(@, BuildingConstructedEvent(w.entities, e)),
                   !.out.constructed_log = Append(@, e)]
    ELSE [w EXCEPT !.entities[e].building = b]

\* the loop body without the `if building.is_constructed { continue; }`
construct_entity_again(w, config, dt, e) ==
    IF ~Has(w.entities, e, {"Building", "Position"}) THEN w
    ELSE IF w.entities[e].building.building_type \notin DOMAIN config.buildings
    THEN w
    ELSE construct_apply(w, e,
            construction_progress_add(w.entities[e].building,
                F32Add(w.entities[e].building.construction_progress,
                       F32Div(dt, config.buildings[
                           w.entities[e].building.building_type
                         ].construction_time))))

construct_entity(w, config, dt, e) ==
    IF ~Has(w.entities, e, {"Building", "Position"}) THEN w
    ELSE IF w.entities[e].building.is_constructed THEN w
    ELSE IF w.entities[e].building.building_type \notin DOMAIN config.buildings
    THEN w
    ELSE construct_apply(w, e,
            construction_progress_add(w.entities[e].building,
                F32Add(w.entities[e].building.construction_progress,
                       F32Div(dt, config.buildings[
                           w.entities[e].building.building_type
                         ].construction_time))))

RECURSIVE construction_loop(_, _, _, _)
construction_loop(w, config, dt, e) ==
    IF e > Len(w.entities) THEN w
    ELSE construction_loop(construct_entity(w, config, dt, e), config, dt,
                           e + 1)

construction_system(w, config) ==
    construction_loop(w, config, delta_time(w.tick), 1)

(***************************************************************************)
(* production_system                                                       *)
(***************************************************************************)
has_required_inputs(stock, recipe) ==
    \A item \in DOMAIN recipe.inputs :
        get_item_count(stock, item) >= recipe.inputs[item]

\* an output-space check that accepts every stockpile
has_space_for_outputs_always(stock, recipe) ==
    available_space(stock) >= 0

has_space_for_outputs(stock, recipe) ==
    available_space(stock) >= SumOver(recipe.outputs, DOMAIN recipe.outputs)

RECURSIVE consume_inputs(_, _, _)
consume_inputs(stock, inputs, todo) ==
    IF todo = {} THEN stock
    ELSE LET item == CHOOSE x \in todo : TRUE IN
         consume_inputs(remove_item(stock, item, inputs[item]).stock, inputs,
                        todo \ {item})

\* [stock, outputs]: the stockpile after the add_item calls and the map of
\* what each call returned
RECURSIVE produce_outputs(_, _, _, _)
produce_outputs(stock, outputs, todo, produced) ==
    IF todo = {} THEN [stock |-> stock, outputs |-> produced]
    ELSE LET item == CHOOSE x \in todo : TRUE
             r == add_item(stock, item, outputs[item])
         IN produce_outputs(r.stock, outputs, todo \ {item},
                            (item :> r.ret) @@ produced)

complete_production_apply(w, e, recipe, r) ==
    [w EXCEPT !.entities[e].stockpile = r.stock,
              !.entities[e].producer.production_progress = F32Zero,
              !.entities[e].producer.is_producing = FALSE,
              !.out.production_completed =
                  Append(@, [building |-> e, recipe_id |-> recipe.name,
                             outputs |-> r.outputs])]

\* completion that leaves the inputs in the stockpile
complete_production_keeps_inputs(w, e, recipe) ==
    complete_production_apply(w, e, recipe,
        produce_outputs(w.entities[e].stockpile,
                        recipe.outputs, DOMAIN recipe.outputs, <<>>))

complete_production(w, e, recipe) ==
    complete_production_apply(w, e, recipe,
        produce_outputs(
            consume_inputs(w.entities[e].stockpile, recipe.inputs,
                           DOMAIN recipe.inputs),
            recipe.outputs, DOMAIN recipe.outputs, <<>>))

production_speed(b) ==
    F32Div(F32FromInt(b.assigned_workers), F32FromInt(b.worker_capacity))

\* completion only when progress has passed 1.0
production_advance_strict(w, e, recipe, progress) ==
    IF ~F32Ge(F32One, progress)
    THEN complete_production(w, e, recipe)
    ELSE [w EXCEPT !.entities[e].producer.is_producing = TRUE,
                   !.entities[e].producer.production_progress = progress]

\* start or continue, then production_progress += (dt / time) * speed
production_advance(w, e, recipe, progress) ==
    IF F32Ge(progress, F32One)
    THEN complete_production(w, e, recipe)
    ELSE [w EXCEPT !.entities[e].producer.is_producing = TRUE,
                   !.entities[e].producer.production_progress = progress]

production_increment(b, recipe, dt) ==
    F32Mul(F32Div(dt, recipe.production_time), production_speed(b))

\* the loop body without the required-inputs check
produce_entity_unchecked(w, config, dt, e) ==
    IF ~Has(w.entities, e, {"Building", "Producer", "Stockpile"}) THEN w
    ELSE IF \/ ~w.entities[e].building.is_constructed
            \/ w.entities[e].building.assigned_workers = 0
    THEN [w EXCEPT !.entities[e].producer.is_producing = FALSE]
    ELSE IF w.entities[e].producer.recipe_id \notin DOMAIN config.recipes
    THEN w
    ELSE IF ~has_space_for_outputs(w.entities[e].stockpile,
                config.recipes[w.entities[e].producer.recipe_id])
    THEN [w EXCEPT !.entities[e].producer.is_producing = FALSE]
    ELSE production_advance(w, e,
            config.recipes[w.entities[e].producer.recipe_id],
            F32Add(IF w.entities[e].producer.is_producing
                   THEN w.entities[e].producer.production_progress
                   ELSE F32Zero,
                   production_increment(w.entities[e].building,
                       config.recipes[w.entities[e].producer.recipe_id], dt)))

produce_entity(w, config, dt, e) ==
    IF ~Has(w.entities, e, {"Building", "Producer", "Stockpile"}) THEN w
    ELSE IF \/ ~w.entities[e].building.is_constructed
            \/ w.entities[e].building.assigned_workers = 0
    THEN [w EXCEPT !.entities[e].producer.is_producing = FALSE]
    ELSE IF w.entities[e].producer.recipe_id \notin DOMAIN config.recipes
    THEN w
    ELSE IF ~has_required_inputs(w.entities[e].stockpile,
                config.recipes[w.entities[e].producer.recipe_id])
    THEN [w EXCEPT !.entities[e].producer.is_producing = FALSE,
                   !.entities[e].producer.production_progress = F32Zero]
    ELSE IF ~has_space_for_outputs(w.entities[e].stockpile,
                config.recipes[w.entities[e].producer.recipe_id])
    THEN [w EXCEPT !.entities[e].producer.is_producing = FALSE]
    ELSE production_advance(w, e,
            config.recipes[w.entities[e].producer.recipe_id],
            F32Add(IF w.entities[e].producer.is_producing
                   THEN w.entities[e].producer.production_progress
                   ELSE F32Zero,
                   production_increment(w.entities[e].building,
                       config.recipes[w.entities[e].producer.recipe_id], dt)))

RECURSIVE production_loop(_, _, _, _)
production_loop(w, config, dt, e) ==
    IF e > Len(w.entities) THEN w
    ELSE production_loop(produce_entity(w, config, dt, e), config, dt, e + 1)

production_system(w, config) ==
    production_loop(w, config, delta_time(w.tick), 1)

(***************************************************************************)
(* worker_ai_system                                                        *)
(***************************************************************************)
TaskCompletedEvent(worker, task_type) ==
    [worker |-> worker, task_type |-> task_type]

PathfindingRequestEvent(entity, from, to) ==
    [entity |-> entity, from |-> from, to |-> to, priority |-> "Normal"]

send_task_completed(w, worker, task_type) ==
    [w EXCEPT !.events.task_completed =
                  Append(@, TaskCompletedEvent(worker, task_type)),
              !.out.task_completed =
                  Append(@, TaskCompletedEvent(worker, task_type))]

\* WorkerTask::Idle that does not look at is_constructed
worker_idle_unbuilt(w, e) ==
    IF /\ w.entities[e].worker.assigned_building # NoEntity
       /\ Has(w.entities, w.entities[e].worker.assigned_building,
              {"Building", "Position"})
       /\ "Worker" \notin
              w.entities[w.entities[e].worker.assigned_building].has
    THEN [w EXCEPT
            !.entities[e].worker.current_task =
                MovingTo(w.entities[w.entities[e].worker.assigned_building
                                   ].position, GoToWork),
            !.events.pathfinding_request =
                Append(@, PathfindingRequestEvent(e, w.entities[e].position,
                    w.entities[w.entities[e].worker.assigned_building
                              ].position))]
    ELSE w

\* WorkerTask::Idle
worker_idle(w, e) ==
    IF /\ w.entities[e].worker.assigned_building # NoEntity
       /\ Has(w.entities, w.entities[e].worker.assigned_building,
              {"Building", "Position"})
       /\ "Worker" \notin
              w.entities[w.entities[e].worker.assigned_building].has
       /\ w.entities[w.entities[e].worker.assigned_building
                    ].building.is_constructed
    THEN [w EXCEPT
            !.entities[e].worker.current_task =
                MovingTo(w.entities[w.entities[e].worker.assigned_building
                                   ].position, GoToWork),
            !.events.pathfinding_request =
                Append(@, PathfindingRequestEvent(e, w.entities[e].position,
                    w.entities[w.entities[e].worker.assigned_building
                              ].position))]
    ELSE w

\* WorkerTask::MovingTo, target reached
worker_arrived(w, e, purpose) ==
    CASE purpose.kind = "GoToWork" ->
            IF w.entities[e].worker.assigned_building # NoEntity
            THEN [w EXCEPT !.entities[e].worker.current_task =
                    Working(w.entities[e].worker.assigned_building, F32Zero)]
            ELSE [w EXCEPT !.entities[e].worker.current_task = Idle]
      [] purpose.kind = "PickupResource" ->
            send_task_completed(
                [w EXCEPT !.entities[e].worker.carrying =
                              Cargo(purpose.item, purpose.amount),
                          !.entities[e].worker.current_task = Idle],
                e, "pickup")
      [] purpose.kind = "DeliverResource" ->
            send_task_completed(
                [w EXCEPT !.entities[e].worker.carrying = NoCargo,
                          !.entities[e].worker.current_task = Idle],
                e, "delivery")
      [] purpose.kind = "Construction" ->
            send_task_completed(
                [w EXCEPT !.entities[e].worker.current_task = Idle],
                e, "construction")

WorkSeconds == F32FromInt(10)

\* WorkerTask::Working: *progress += delta_time * 1.0
\* WorkerTask::Working that is done after 5 seconds
worker_working_half(w, e, progress) ==
    IF F32Ge(progress, F32FromInt(5))
    THEN send_task_completed(
            [w EXCEPT !.entities[e].worker.current_task = Idle], e, "work")
    ELSE [w EXCEPT !.entities[e].worker.current_task.progress = progress]

worker_working(w, e, progress) ==
    IF F32Ge(progress, WorkSeconds)
    THEN send_task_completed(
            [w EXCEPT !.entities[e].worker.current_task = Idle], e, "work")
    ELSE [w EXCEPT !.entities[e].worker.current_task.progress = progress]

\* worker_ai whose Carrying arm delivers without emptying the worker's hands
worker_ai_keeps_cargo(w, dt, e) ==
    IF ~Has(w.entities, e, {"Worker", "Position"}) THEN w
    ELSE CASE w.entities[e].worker.current_task.kind = "Idle" ->
                worker_idle(w, e)
           [] w.entities[e].worker.current_task.kind = "MovingTo" ->
                IF within_one_tile(w.entities[e].position,
                                   w.entities[e].worker.current_task.target)
                THEN worker_arrived(w, e,
                        w.entities[e].worker.current_task.purpose)
                ELSE w
           [] w.entities[e].worker.current_task.kind = "Working" ->
                worker_working(w, e,
                    F32Add(w.entities[e].worker.current_task.progress,
                           F32Mul(dt, F32One)))
           [] w.entities[e].worker.current_task.kind = "Carrying" ->
                IF within_one_tile(w.entities[e].position,
                                   w.entities[e].worker.current_task.to)
                THEN send_task_completed(
                        [w EXCEPT !.entities[e].worker.current_task = Idle],
                        e, "delivery")
                ELSE w

worker_ai(w, dt, e) ==
    IF ~Has(w.entities, e, {"Worker", "Position"}) THEN w
    ELSE CASE w.entities[e].worker.current_task.kind = "Idle" ->
                worker_idle(w, e)
           [] w.entities[e].worker.current_task.kind = "MovingTo" ->
                IF within_one_tile(w.entities[e].position,
                                   w.entities[e].worker.current_task.target)
                THEN worker_arrived(w, e,
                        w.entities[e].worker.current_task.purpose)
                ELSE w
           [] w.entities[e].worker.current_task.kind = "Working" ->
                worker_working(w, e,
                    F32Add(w.entities[e].worker.current_task.progress,
                           F32Mul(dt, F32One)))
           [] w.entities[e].worker.current_task.kind = "Carrying" ->
                IF within_one_tile(w.entities[e].position,
                                   w.entities[e].worker.current_task.to)
                THEN send_task_completed(
                        [w EXCEPT !.entities[e].worker.carrying = NoCargo,
                                  !.entities[e].worker.current_task = Idle],
                        e, "delivery")
                ELSE w

RECURSIVE worker_ai_loop(_, _, _)
worker_ai_loop(w, dt, e) ==
    IF e > Len(w.entities) THEN w
    ELSE worker_ai_loop(worker_ai(w, dt, e), dt, e + 1)

worker_ai_system(w) == worker_ai_loop(w, delta_time(w.tick), 1)

(***************************************************************************)
(* pathfinding_system and movement_system                                  *)
(***************************************************************************)
\* self.cache.keys().next(): the caches of the simulation hold at most one
\* key, which is then the key evicted
cache_victim(c) ==
    IF DOMAIN c.cache = {} THEN <<>> ELSE CHOOSE k \in DOMAIN c.cache : TRUE

\* r is what find_path returned for the request; the insert is a deferred
\* command, and a later request of the same entity replaces the component
pathfinding_request(w, request, r) ==
    IF r.result.some
    THEN [w EXCEPT !.cache = r.cache,
                   !.entities[request.entity].has = @ \cup {"Pathfinding"},
                   !.entities[request.entity].pathfinding =
                       Pathfinding_new(r.result.path)]
    ELSE [w EXCEPT !.cache = r.cache]

RECURSIVE pathfinding_loop(_, _, _, _)
pathfinding_loop(w, requests, i, bias) ==
    IF i > Len(requests) THEN w
    ELSE pathfinding_loop(
            pathfinding_request(w, requests[i],
                find_path(w.cache, w.map, requests[i].from, requests[i].to,
                          bias, cache_victim(w.cache))),
            requests, i + 1, bias)

pathfinding_system(w, bias) ==
    [pathfinding_loop(w, w.events.pathfinding_request, 1, bias)
        EXCEPT !.events.pathfinding_request = <<>>]

move_entity(w, e) ==
    IF ~Has(w.entities, e, {"Position", "Pathfinding"}) THEN w
    ELSE IF is_complete(w.entities[e].pathfinding) THEN w
    ELSE IF current_target(w.entities[e].pathfinding).some
    THEN [w EXCEPT !.entities[e].position =
                       current_target(w.entities[e].pathfinding).position,
                   !.entities[e].pathfinding = advance_target(@)]
    ELSE w

RECURSIVE movement_loop(_, _)
movement_loop(w, e) ==
    IF e > Len(w.entities) THEN w
    ELSE movement_loop(move_entity(w, e), e + 1)

movement_system(w) == movement_loop(w, 1)

\* cache.clear() once per MapChangedEvent read
invalidate_pathfinding_cache_system(w) ==
    IF w.events.map_changed = <<>> THEN w
    ELSE [w EXCEPT !.cache = cache_clear(@), !.events.map_changed = <<>>]

(***************************************************************************)
(* transport_system, resource_distribution_system,                         *)
(* transport_completion_system                                             *)
(***************************************************************************)
\* the entities a query yields, in the order it yields them
QueryOrder(ents, comps) == {e \in 1..Len(ents) : comps \subseteq ents[e].has}

First(S) == IF S = {} THEN NoEntity ELSE CHOOSE e \in S : \A o \in S : e <= o

\* a search for a worker that does not look at what the worker carries
available_worker_with_cargo(ents) ==
    First({e \in QueryOrder(ents, {"Worker", "Position"}) :
             ents[e].worker.current_task.kind = "Idle"})

\* workers.iter_mut().find(|w| Idle && carrying.is_none())
available_worker(ents) ==
    First({e \in QueryOrder(ents, {"Worker", "Position"}) :
             /\ ents[e].worker.current_task.kind = "Idle"
             /\ ~ents[e].worker.carrying.some})

transfer_resource(w, event, worker) ==
    IF worker = NoEntity THEN w
    ELSE IF /\ Has(w.entities, event.from, {"Position"})
            /\ Has(w.entities, event.to, {"Position"})
            /\ Has(w.entities, event.from, {"Stockpile"})
            /\ get_item_count(w.entities[event.from].stockpile,
                              event.resource) >= event.amount
    THEN [w EXCEPT
            !.entities[worker].worker.current_task =
                MovingTo(w.entities[event.from].position,
                         PickupResource(event.resource, event.amount)),
            !.events.pathfinding_request =
                Append(@, PathfindingRequestEvent(worker,
                              w.entities[worker].position,
                              w.entities[event.from].position))]
    ELSE w

RECURSIVE transport_loop(_, _, _)
transport_loop(w, evs, i) ==
    IF i > Len(evs) THEN w
    ELSE transport_loop(
            transfer_resource(w, evs[i], available_worker(w.entities)),
            evs, i + 1)

transport_system(w) ==
    [transport_loop(w, w.events.transfer_resource, 1)
        EXCEPT !.events.transfer_resource = <<>>]

TransferResourceEvent(from, to, resource, amount) ==
    [from |-> from, to |-> to, resource |-> resource, amount |-> amount]

\* (amount - 10).min(5), not capped by the space of the destination
transfer_amount_uncapped(amount, dest_stock) == Min(amount - 10, 5)

\* (amount - 10).min(5).min(dest_stockpile.available_space())
transfer_amount(amount, dest_stock) ==
    Min(Min(amount - 10, 5), available_space(dest_stock))

\* the destination the inner loop stops at, NoEntity if it reaches the end
distribution_destination(ents, source, item) ==
    First({d \in QueryOrder(ents, {"Stockpile", "Position"}) \ {source} :
             /\ get_item_count(ents[d].stockpile, item) < 5
             /\ available_space(ents[d].stockpile) > 0
             /\ transfer_amount(ents[source].stockpile.items[item],
                                ents[d].stockpile) > 0})

distribute_item(ents, source, item, dest) ==
    IF dest = NoEntity THEN <<>>
    ELSE <<TransferResourceEvent(source, dest, item,
              transfer_amount(ents[source].stockpile.items[item],
                              ents[dest].stockpile))>>

\* order: the items in the order the HashMap of a stockpile yields them
RECURSIVE distribution_items(_, _, _, _)
distribution_items(ents, source, order, k) ==
    IF k > Len(order) THEN <<>>
    ELSE IF /\ order[k] \in DOMAIN ents[source].stockpile.items
            /\ ents[source].stockpile.items[order[k]] > 10
    THEN distribute_item(ents, source, order[k],
             distribution_destination(ents, source, order[k]))
         \o distribution_items(ents, source, order, k + 1)
    ELSE distribution_items(ents, source, order, k + 1)

RECURSIVE distribution_loop(_, _, _)
distribution_loop(ents, order, e) ==
    IF e > Len(ents) THEN <<>>
    ELSE IF Has(ents, e, {"Stockpile", "Position"})
    THEN distribution_items(ents, e, order, 1)
         \o distribution_loop(ents, order, e + 1)
    ELSE distribution_loop(ents, order, e + 1)

resource_distribution_system(w, order) ==
    IF w.tick.current % (w.tick.target_tps * 5) # 0 THEN w
    ELSE [w EXCEPT !.events.transfer_resource =
                       @ \o distribution_loop(w.entities, order, 1)]

\* the items some stockpile holds more than 10 of, in every order
ExcessItems(ents) ==
    UNION {{item \in DOMAIN ents[e].stockpile.items :
               ents[e].stockpile.items[item] > 10} :
           e \in QueryOrder(ents, {"Stockpile", "Position"})}

DistributionOrders(ents) ==
    {order \in [1..Cardinality(ExcessItems(ents)) -> ExcessItems(ents)] :
        \A i, j \in DOMAIN order : i # j => order[i] # order[j]}

\* "for now, just find any stockpile with space"
carry_destination(ents, amount) ==
    First({d \in QueryOrder(ents, {"Stockpile"}) :
             available_space(ents[d].stockpile) >= amount})

pickup_completed(w, worker, dest) ==
    IF dest # NoEntity /\ Has(w.entities, dest, {"Position"})
       /\ Has(w.entities, worker, {"Position"})
    THEN [w EXCEPT
            !.entities[worker].worker.current_task =
                Carrying(w.entities[worker].position,
                         w.entities[dest].position,
                         w.entities[worker].worker.carrying.item,
                         w.entities[worker].worker.carrying.amount),
            !.events.pathfinding_request =
                Append(@, PathfindingRequestEvent(worker,
                              w.entities[worker].position,
                              w.entities[dest].position))]
    ELSE w

\* a completion handler that does not look at the task type
task_completed_of_any_type(w, event) ==
    IF /\ Has(w.entities, event.worker, {"Worker"})
       /\ w.entities[event.worker].worker.carrying.some
    THEN pickup_completed(w, event.worker,
            carry_destination(w.entities,
                w.entities[event.worker].worker.carrying.amount))
    ELSE w

\* a "delivery" completion is only logged: no stockpile is touched
task_completed(w, event) ==
    IF /\ event.task_type = "pickup"
       /\ Has(w.entities, event.worker, {"Worker"})
       /\ w.entities[event.worker].worker.carrying.some
    THEN pickup_completed(w, event.worker,
            carry_destination(w.entities,
                w.entities[event.worker].worker.carrying.amount))
    ELSE w

RECURSIVE transport_completion_loop(_, _, _)
transport_completion_loop(w, evs, i) ==
    IF i > Len(evs) THEN w
    ELSE transport_completion_loop(task_completed(w, evs[i]), evs, i + 1)

transport_completion_system(w) ==
    [transport_completion_loop(w, w.events.task_completed, 1)
        EXCEPT !.events.task_completed = <<>>]

(***************************************************************************)
(* spawn_workers_system                                                    *)
(***************************************************************************)
spawn_worker(i) ==
    [Spawn({"Position", "Worker"}, Position_new(10 + i, 10))
        EXCEPT !.worker = Worker_new("worker")]

spawn_workers_system(w) ==
    IF w.tick.current = 1
    THEN [w EXCEPT !.entities = @ \o [i \in 1..5 |-> spawn_worker(i - 1)]]
    ELSE w

(***************************************************************************)
(* One update of the app: the chained systems in their order.  bias is the *)
(* tie-break of the A* heap, order the item order of distribution.         *)
(* profile_systems_system only records timings and is left out.            *)
(***************************************************************************)
update_by_tie_break(w, config, bias, order) ==
    IF bias = "high"
    THEN invalidate_pathfinding_cache_system(
          transport_completion_system(
           resource_distribution_system(
            transport_system(
             movement_system(
              pathfinding_system(
               worker_ai_system(
                production_system(
                 construction_system(
                  start_production_system(
                   worker_assignment_system(
                    building_placement_system(
                     advance_tick_system(w),
                     config))),
                  config),
                 config)),
               bias))),
            order)))
    ELSE spawn_workers_system(
     invalidate_pathfinding_cache_system(
      transport_completion_system(
       resource_distribution_system(
        transport_system(
         movement_system(
          pathfinding_system(
           worker_ai_system(
            production_system(
             construction_system(
              start_production_system(
               worker_assignment_system(
                building_placement_system(
                 advance_tick_system(w),
                 config))),
              config),
             config)),
           bias))),
        order))))

update(w, config, bias, order) ==
    spawn_workers_system(
     invalidate_pathfinding_cache_system(
      transport_completion_system(
       resource_distribution_system(
        transport_system(
         movement_system(
          pathfinding_system(
           worker_ai_system(
            production_system(
             construction_system(
              start_production_system(
               worker_assignment_system(
                building_placement_system(
                 advance_tick_system(w),
                 config))),
              config),
             config)),
           bias))),
        order))))

(***************************************************************************)
(* The simulation driven by its host: send_event between updates, tick().  *)
(***************************************************************************)
World ==
    [tick |-> game_tick, entities |-> entities, events |-> events,
     map |-> map, cache |-> pcache,
     out |-> StepOutput(sim_out.constructed_log)]

\* SimulationApp::tick: one app.update()
Tick(limit) ==
    /\ game_tick.current < limit
    /\ \E bias \in {"low", "high"}, order \in DistributionOrders(entities) :
        \E w \in {update(World, game_config, bias, order)} :
        /\ game_tick' = w.tick
        /\ entities' = w.entities
        /\ events' = w.events
        /\ pcache' = w.cache
        /\ sim_out' = w.out
        /\ sim_prev' = entities
    /\ UNCHANGED <<game_config, sim_sent, map, fp_log, fp_changed, fp_edits,
                   stockVars, hostVars>>

PlacePositions == {Position_new(10, 10), Position_new(12, 10)}

\* the requests the host sends: a lumberjack at either position, and a
\* building type the configuration does not know
PlaceRequests ==
    {[building_type |-> "lumberjack", position |-> position] :
        position \in PlacePositions}
    \cup {[building_type |-> "castle", position |-> Position_new(10, 10)]}

\* send_event(PlaceBuildingEvent { building_type, position })
SendPlaceBuilding ==
    /\ sim_sent.place_building < MaxPlacements
    /\ \E request \in PlaceRequests :
        events' = [events EXCEPT !.place_building = Append(@, request)]
    /\ sim_sent' = [sim_sent EXCEPT !.place_building = @ + 1]
    /\ UNCHANGED <<game_tick, game_config, entities, sim_out, sim_prev, pathVars,
                   stockVars, hostVars>>

\* send_event(AssignWorkerEvent { worker, building }) naming one of the
\* first two workers and an entity that is a building
SendAssignWorker ==
    /\ sim_sent.assign_worker < MaxAssignments
    /\ \E worker \in {e \in QueryOrder(entities, {"Worker"}) :
                        Cardinality({o \in QueryOrder(entities, {"Worker"}) :
                                        o < e}) < 2},
          building \in QueryOrder(entities, {"Building"}) :
        events' = [events EXCEPT !.assign_worker =
                      Append(@, [worker |-> worker, building |-> building])]
    /\ sim_sent' = [sim_sent EXCEPT !.assign_worker = @ + 1]
    /\ UNCHANGED <<game_tick, game_config, entities, sim_out, sim_prev, pathVars,
                   stockVars, hostVars>>

\* send_event(MapChangedEvent { .. }) while the cache holds a path
SendMapChanged ==
    /\ sim_sent.map_changed < MaxEdits
    /\ DOMAIN pcache.cache # {}
    /\ events' = [events EXCEPT !.map_changed =
                     Append(@, [position |-> Position_new(10, 10),
                                change_type |-> "TerrainChanged"])]
    /\ sim_sent' = [sim_sent EXCEPT !.map_changed = @ + 1]
    /\ UNCHANGED <<game_tick, game_config, entities, sim_out, sim_prev, pathVars,
                   stockVars, hostVars>>

\* a new simulation with a grid installed and a configuration of short
\* construction times
BuildInit ==
    /\ SimStart(load_from_directory, <<>>, NoEvents)
    /\ PathStart(0)
    /\ StockStart(0)
    /\ HostStart

BuildNext ==
    SendPlaceBuilding \/ SendAssignWorker \/ SendMapChanged \/ Tick(MaxTicks)

SpecBuild == BuildInit /\ [][BuildNext]_vars

(***************************************************************************)
(* A world restored by load_game_state at tick 0: a sawmill with a         *)
(* Producer and a worker next to it.                                       *)
(***************************************************************************)
SavedItems ==
    {<<>>, "wood" :> 1, "wood" :> 3, ("wood" :> 2) @@ ("planks" :> 2)}

SavedSawmill(constructed, staffed, items) ==
    [Spawn({"Position", "Building", "Stockpile", "Producer", "Blocked"},
           Position_new(25, 25))
        EXCEPT !.building =
                   [Building_new("sawmill", 2) EXCEPT
                       !.is_constructed = constructed,
                       !.construction_progress =
                           IF constructed THEN F32One ELSE F32Zero,
                       !.assigned_workers = IF staffed THEN 1 ELSE 0],
               !.stockpile = [Stockpile_new(4) EXCEPT !.items = items],
               !.producer = Producer_new("make_planks")]

SavedWorker(staffed) ==
    [Spawn({"Position", "Worker"}, Position_new(25, 25))
        EXCEPT !.worker = [Worker_new("worker") EXCEPT
                              !.assigned_building =
                                  IF staffed THEN 1 ELSE NoEntity]]

ProduceInit ==
    /\ \E constructed \in BOOLEAN, staffed \in BOOLEAN, items \in SavedItems :
        SimStart(load_from_directory,
                 <<SavedSawmill(constructed, staffed, items),
                   SavedWorker(staffed)>>,
                 NoEvents)
    /\ PathStart(0)
    /\ StockStart(0)
    /\ HostStart

StartRecipes == {"harvest_wood", "make_planks", "brew_ale"}

\* send_event(StartProductionEvent { building, recipe_id })
SendStartProduction ==
    /\ sim_sent.start_production < MaxStarts
    /\ \E building \in QueryOrder(entities, {"Producer"}),
          recipe_id \in StartRecipes :
        events' = [events EXCEPT !.start_production =
                      Append(@, [building |-> building,
                                 recipe_id |-> recipe_id])]
    /\ sim_sent' = [sim_sent EXCEPT !.start_production = @ + 1]
    /\ UNCHANGED <<game_tick, game_config, entities, sim_out, sim_prev,
                   pathVars, stockVars, hostVars>>

ProduceNext == SendAssignWorker \/ SendStartProduction \/ Tick(MaxTicks)

SpecProduce == ProduceInit /\ [][ProduceNext]_vars

(***************************************************************************)
(* A new simulation with the default configuration and one PlaceBuilding   *)
(* request for a lumberjack sent before the first update.                  *)
(***************************************************************************)
LumberInit ==
    /\ \E position \in PlacePositions :
        SimStart(GameConfig_default, <<>>,
                 [NoEvents EXCEPT !.place_building =
                     <<[building_type |-> "lumberjack",
                        position |-> position]>>])
    /\ PathStart(0)
    /\ StockStart(0)
    /\ HostStart

LumberNext == Tick(MaxLumberTicks)

SpecLumberjack == LumberInit /\ [][LumberNext]_vars

F32Gt(a, b) == ~F32Ge(b, a)

Buildings == QueryOrder(entities, {"Building"})

\* the number of entries of seq that equal x
Occurrences(seq, x) == Cardinality({i \in DOMAIN seq : seq[i] = x})

(***************************************************************************)
(* C7: whenever a map-changing event occurs (here: a building is placed),  *)
(* the pathfinding cache holds no entries at the end of the step in which  *)
(* the change happens.                                                     *)
(***************************************************************************)
C7_CacheClearedOnMapChange ==
    sim_out.placed # <<>> => cache_len(pcache) = 0

(***************************************************************************)
(* C8: construction_progress of a Building never decreases and never       *)
(* exceeds 1.0; once it reaches 1.0 it is exactly 1.0, is_constructed is   *)
(* true and stays true, and over the whole run exactly one                 *)
(* BuildingConstructed notification was emitted for the building, in the   *)
(* update that completed it.                                               *)
(***************************************************************************)
C8_ConstructionProgress ==
    \A e \in Buildings :
        /\ F32Ge(F32One, entities[e].building.construction_progress)
        /\ entities[e].building.is_constructed
             <=> entities[e].building.construction_progress = F32One
        /\ e <= Len(sim_prev) =>
             /\ F32Ge(entities[e].building.construction_progress,
                      sim_prev[e].building.construction_progress)
             /\ sim_prev[e].building.is_constructed
                  => entities[e].building.is_constructed
        /\ Occurrences(sim_out.constructed_log, e)
             = IF entities[e].building.is_constructed THEN 1 ELSE 0
        /\ Occurrences([i \in DOMAIN sim_out.building_constructed |->
                           sim_out.building_constructed[i].building], e)
             = IF /\ entities[e].building.is_constructed
                  /\ ~(e <= Len(sim_prev)
                         /\ sim_prev[e].building.is_constructed)
               THEN 1 ELSE 0

\* an update that completed a building whose progress would have passed 1.0
\* without the clamp, and emitted the one notification
C8_Witness ==
    \E e \in Buildings :
        /\ e <= Len(sim_prev)
        /\ ~sim_prev[e].building.is_constructed
        /\ entities[e].building.is_constructed
        /\ entities[e].building.construction_progress = F32One
        /\ F32Gt(F32Add(sim_prev[e].building.construction_progress,
                        F32Div(delta_time(game_tick),
                               game_config.buildings[
                                   entities[e].building.building_type
                                 ].construction_time)),
                 F32One)
        /\ Occurrences(sim_out.constructed_log, e) = 1

(***************************************************************************)
(* C9: at 20 ticks per second a lumberjack (construction_time 30 s) placed *)
(* by a request sent at tick 0 is not constructed at the end of any step   *)
(* with tick < 600, and is constructed from some tick >= 600 on.           *)
(***************************************************************************)
C9_LumberjackTakes600Ticks ==
    /\ game_tick.target_tps = 20
    /\ game_tick.current >= 1 => Buildings = {1}
    /\ \A e \in Buildings :
        /\ entities[e].building.building_type = "lumberjack"
        /\ game_tick.current < 600 => ~entities[e].building.is_constructed
        /\ (e <= Len(sim_prev) /\ sim_prev[e].building.is_constructed)
             => entities[e].building.is_constructed
        /\ game_tick.current = MaxLumberTicks
             => entities[e].building.is_constructed

\* the step that completes the lumberjack
C9_Witness ==
    /\ game_tick.current >= 600
    /\ \E e \in Buildings :
        /\ entities[e].building.building_type = "lumberjack"
        /\ entities[e].building.is_constructed
        /\ e <= Len(sim_prev)
        /\ ~sim_prev[e].building.is_constructed

(***************************************************************************)
(* C10: in a step a Producer's production_progress increases only if its   *)
(* Building is constructed, has at least one assigned worker, the          *)
(* Stockpile holds the required quantity of every input of the recipe and  *)
(* available_space() is at least the sum of the recipe's outputs.          *)
(***************************************************************************)
Producers == QueryOrder(entities, {"Building", "Producer", "Stockpile"})

ProgressIncreased(e) ==
    /\ e <= Len(sim_prev)
    /\ F32Gt(entities[e].producer.production_progress,
             sim_prev[e].producer.production_progress)

C10_ProgressOnlyWhenReady ==
    \A e \in Producers :
        ProgressIncreased(e) =>
            /\ entities[e].building.is_constructed
            /\ entities[e].building.assigned_workers >= 1
            /\ entities[e].producer.recipe_id \in DOMAIN game_config.recipes
            /\ \A item \in DOMAIN game_config.recipes[
                               entities[e].producer.recipe_id].inputs :
                 get_item_count(entities[e].stockpile, item)
                   >= game_config.recipes[
                          entities[e].producer.recipe_id].inputs[item]
            /\ entities[e].stockpile.capacity
                 - total_items(entities[e].stockpile)
                 >= SumOver(game_config.recipes[
                                entities[e].producer.recipe_id].outputs,
                            DOMAIN game_config.recipes[
                                entities[e].producer.recipe_id].outputs)

\* a step in which a producer with inputs in stock gained progress
C10_Witness ==
    \E e \in Producers :
        /\ ProgressIncreased(e)
        /\ entities[e].producer.recipe_id = "make_planks"
        /\ entities[e].producer.is_producing
        /\ get_item_count(entities[e].stockpile, "wood") >= 1

(***************************************************************************)
(* C11: in the step in which a Producer's progress reaches 1.0 all recipe  *)
(* inputs are removed from the Stockpile, every output is added capped by  *)
(* the available space, progress is reset to 0, and exactly one            *)
(* ProductionCompleted notification is emitted whose outputs map carries   *)
(* per item the quantity actually added.  A stockpile changes in no other  *)
(* step.                                                                   *)
(***************************************************************************)
CompletedEvents(e) ==
    {i \in DOMAIN sim_out.production_completed :
        sim_out.production_completed[i].building = e}

InputOf(recipe, item) ==
    IF item \in DOMAIN recipe.inputs THEN recipe.inputs[item] ELSE 0

OutputOf(outputs, item) ==
    IF item \in DOMAIN outputs THEN outputs[item] ELSE 0

CompletionEffects(e, ev, recipe) ==
    /\ ev.recipe_id = recipe.name
    /\ DOMAIN ev.outputs = DOMAIN recipe.outputs
    /\ \A item \in Items :
         /\ get_item_count(sim_prev[e].stockpile, item) >= InputOf(recipe, item)
         /\ get_item_count(entities[e].stockpile, item)
              = get_item_count(sim_prev[e].stockpile, item)
                  - InputOf(recipe, item) + OutputOf(ev.outputs, item)
         /\ OutputOf(ev.outputs, item) <= OutputOf(recipe.outputs, item)
         /\ OutputOf(ev.outputs, item) < OutputOf(recipe.outputs, item)
              => available_space(entities[e].stockpile) = 0
    /\ total_items(entities[e].stockpile) <= entities[e].stockpile.capacity
    /\ entities[e].producer.production_progress = F32Zero

C11_CompletionIsAtomic ==
    \A e \in Producers :
        e <= Len(sim_prev) =>
            /\ Cardinality(CompletedEvents(e)) <= 1
            /\ \A i \in CompletedEvents(e) :
                 /\ entities[e].producer.recipe_id
                      \in DOMAIN game_config.recipes
                 /\ CompletionEffects(e, sim_out.production_completed[i],
                        game_config.recipes[entities[e].producer.recipe_id])
            /\ CompletedEvents(e) = {}
                 => entities[e].stockpile = sim_prev[e].stockpile

\* a step that completed make_planks: one wood less, two planks more, one
\* notification carrying planks 2
C11_Witness ==
    \E e \in Producers :
        /\ e <= Len(sim_prev)
        /\ Cardinality(CompletedEvents(e)) = 1
        /\ F32Gt(sim_prev[e].producer.production_progress, F32Zero)
        /\ \E i \in CompletedEvents(e) :
             sim_out.production_completed[i].outputs = ("planks" :> 2)
        /\ get_item_count(entities[e].stockpile, "wood")
             = get_item_count(sim_prev[e].stockpile, "wood") - 1
        /\ get_item_count(entities[e].stockpile, "planks")
             = get_item_count(sim_prev[e].stockpile, "planks") + 2

(***************************************************************************)
(* C12: at the end of every step every Producer's production_progress lies *)
(* in [0, 1), and a step takes items out of a producer's Stockpile only if *)
(* the stockpile it started from passed both the required-inputs check and *)
(* the output-space check of the producer's recipe.                        *)
(***************************************************************************)
InputsRemoved(e) ==
    /\ e <= Len(sim_prev)
    /\ \E item \in Items :
         get_item_count(entities[e].stockpile, item)
           < get_item_count(sim_prev[e].stockpile, item)

C12_ProgressBelowOne ==
    \A e \in Producers :
        /\ F32Ge(entities[e].producer.production_progress, F32Zero)
        /\ F32Gt(F32One, entities[e].producer.production_progress)
        /\ InputsRemoved(e) =>
             /\ entities[e].producer.recipe_id \in DOMAIN game_config.recipes
             /\ has_required_inputs(sim_prev[e].stockpile,
                    game_config.recipes[entities[e].producer.recipe_id])
             /\ has_space_for_outputs(sim_prev[e].stockpile,
                    game_config.recipes[entities[e].producer.recipe_id])

\* a step that took the wood of a sawmill whose progress stood at one half
\* or more, and left the progress at 0
C12_Witness ==
    \E e \in Producers :
        /\ InputsRemoved(e)
        /\ F32Ge(sim_prev[e].producer.production_progress, Seconds(1, 2))
        /\ entities[e].producer.production_progress = F32Zero
        /\ entities[e].building.assigned_workers >= 1

(***************************************************************************)
(* SimulationApp::calculate_state_hash: DefaultHasher::new() is            *)
(* SipHash-1-3 with the key (0, 0); the tick counter (u64) and the entity  *)
(* count (usize) are written as two little-endian 64-bit words.  A u64 is  *)
(* four 16-bit limbs, the least significant first.                         *)
(***************************************************************************)
Limb == Pow2(16)

U64FromInt(n) == <<n % Limb, n \div Limb, 0, 0>>

AddCarry(a, b, i) ==
    IF i = 0 THEN 0
    ELSE IF i = 1 THEN (a[1] + b[1]) \div Limb
    ELSE IF i = 2 THEN (a[2] + b[2] + (a[1] + b[1]) \div Limb) \div Limb
    ELSE (a[3] + b[3]
            + (a[2] + b[2] + (a[1] + b[1]) \div Limb) \div Limb) \div Limb

\* wrapping_add
U64Add(a, b) ==
    <<(a[1] + b[1]) % Limb,
      (a[2] + b[2] + AddCarry(a, b, 1)) % Limb,
      (a[3] + b[3] + AddCarry(a, b, 2)) % Limb,
      (a[4] + b[4] + AddCarry(a, b, 3)) % Limb>>

Xor1(a, b) == (a + b) % 2

Xor4(a, b) ==
    Xor1(a % 2, b % 2) + 2 * Xor1((a \div 2) % 2, (b \div 2) % 2)
      + 4 * Xor1((a \div 4) % 2, (b \div 4) % 2)
      + 8 * Xor1(a \div 8, b \div 8)

Xor16(a, b) ==
    Xor4(a % 16, b % 16) + 16 * Xor4((a \div 16) % 16, (b \div 16) % 16)
      + 256 * Xor4((a \div 256) % 16, (b \div 256) % 16)
      + 4096 * Xor4(a \div 4096, b \div 4096)

U64Xor(a, b) ==
    <<Xor16(a[1], b[1]), Xor16(a[2], b[2]),
      Xor16(a[3], b[3]), Xor16(a[4], b[4])>>

\* limb i (0..3) of a rotated left by whole limbs q
RotLimb(a, q, i) == a[((i + 4 - q) % 4) + 1]

RotBits(hi, lo, r) ==
    ((hi % Pow2(16 - r)) * Pow2(r)) + (lo \div Pow2(16 - r))

\* rotate_left(k)
U64Rotl(a, k) ==
    <<RotBits(RotLimb(a, k \div 16, 0), RotLimb(a, k \div 16, 3), k % 16),
      RotBits(RotLimb(a, k \div 16, 1), RotLimb(a, k \div 16, 0), k % 16),
      RotBits(RotLimb(a, k \div 16, 2), RotLimb(a, k \div 16, 1), k % 16),
      RotBits(RotLimb(a, k \div 16, 3), RotLimb(a, k \div 16, 2), k % 16)>>

\* the state <<v0, v1, v2, v3>> of a hasher with key (0, 0)
SipInit ==
    << <<25973, 28787, 28005, 29551>>, <<28525, 28260, 29281, 25711>>,
       <<29281, 28261, 26469, 27769>>, <<25971, 31092, 25698, 29797>> >>

SipHalfA(v0, v1, v2, v3) ==
    <<U64Rotl(v0, 32), U64Xor(U64Rotl(v1, 13), v0),
      v2, U64Xor(U64Rotl(v3, 16), v2)>>

SipHalfB(v0, v1, v2, v3) ==
    <<v0, U64Xor(U64Rotl(v1, 17), v2),
      U64Rotl(v2, 32), U64Xor(U64Rotl(v3, 21), v0)>>

SipMixA(v) == SipHalfA(U64Add(v[1], v[2]), v[2], U64Add(v[3], v[4]), v[4])

SipMixB(v) == SipHalfB(U64Add(v[1], v[4]), v[2], U64Add(v[3], v[2]), v[4])

SipRound(v) == SipMixB(SipMixA(v))

\* c_rounds and d_rounds: n SipRounds in a row
RECURSIVE SipRounds(_, _)
SipRounds(v, n) ==
    IF n = 0 \/ Len(v) # 4 THEN v ELSE SipRounds(SipRound(v), n - 1)

\* one message word: v3 ^= m; one c-round; v0 ^= m
SipWrite(v, m) ==
    [SipRounds([v EXCEPT ![4] = U64Xor(@, m)], 1) EXCEPT ![1] = U64Xor(@, m)]

\* write(): the words of the message one after the other
RECURSIVE SipAbsorb(_, _)
SipAbsorb(v, words) ==
    IF words = <<>> \/ Len(v) # 4 THEN v
    ELSE SipAbsorb(SipWrite(v, Head(words)), Tail(words))

\* the last word of a message of n whole words: its length in the top byte
SipLengthWord(n) == <<0, 0, 0, ((8 * n) % 256) * 256>>

\* finish(): v2 ^= 0xff, three d-rounds, v0 ^ v1 ^ v2 ^ v3
SipFinish(v) ==
    SipRounds([v EXCEPT ![3] = U64Xor(@, <<255, 0, 0, 0>>)], 3)

SipFold(v) == U64Xor(U64Xor(v[1], v[2]), U64Xor(v[3], v[4]))

SipHash13(words) ==
    SipFold(SipFinish(SipAbsorb(SipInit,
                Append(words, SipLengthWord(Len(words))))))

state_hash(tick, entity_count) ==
    SipHash13(<<U64FromInt(tick), U64FromInt(entity_count)>>)

\* a hash that also covers component data: the items held in stockpiles
calculate_state_hash_of_stock(w) ==
    SipHash13(<<U64FromInt(w.tick.current), U64FromInt(Len(w.entities)),
                U64FromInt(SumOver([e \in DOMAIN w.entities |->
                               total_items(w.entities[e].stockpile)],
                           DOMAIN w.entities))>>)

calculate_state_hash(w) == state_hash(w.tick.current, Len(w.entities))

(***************************************************************************)
(* Two simulations constructed the same way (SimulationApp::new and        *)
(* initialize_demo, a small grid standing for the demo map), each advanced *)
(* by tick() on its own, with no event sent to either.                     *)
(***************************************************************************)
TwinInit ==
    /\ SimStart(GameConfig_default, <<>>, NoEvents)
    /\ PathStart(0)
    /\ StockStart(0)
    /\ twin = [tick |-> game_tick, entities |-> entities, events |-> events,
               map |-> map, cache |-> pcache, out |-> StepOutput(<<>>)]
    /\ replay = <<>>
    /\ saved = <<>>
    /\ map_call = <<>>

\* tick() of the second simulation
TickTwin(limit) ==
    /\ twin.tick.current < limit
    /\ \E bias \in {"low", "high"}, order \in DistributionOrders(twin.entities) :
        twin' = update([twin EXCEPT !.out = StepOutput(@.constructed_log)],
                       game_config, bias, order)
    /\ UNCHANGED <<replay, saved, map_call, simVars, pathVars, stockVars>>

TwinNext == Tick(MaxTwinTicks) \/ TickTwin(MaxTwinTicks)

SpecTwin == TwinInit /\ [][TwinNext]_vars

HashInit ==
    /\ SimStart(load_from_directory,
                <<SavedSawmill(TRUE, TRUE, "wood" :> 1), SavedWorker(TRUE)>>,
                NoEvents)
    /\ PathStart(0)
    /\ StockStart(0)
    /\ \E items \in SavedItems :
        twin = [tick |-> game_tick,
                entities |-> <<SavedSawmill(TRUE, TRUE, items),
                               SavedWorker(TRUE)>>,
                events |-> NoEvents, map |-> map, cache |-> pcache,
                out |-> StepOutput(<<>>)]
    /\ replay = <<>>
    /\ saved = <<>>
    /\ map_call = <<>>

HashNext == SendPlaceBuilding \/ Tick(MaxTicks) \/ TickTwin(MaxTicks)

SpecHash == HashInit /\ [][HashNext]_vars

(***************************************************************************)
(* C14: the state hash is a function of the tick counter and the entity    *)
(* count only: two simulation states with equal tick counter and equal     *)
(* entity count have equal hashes, whatever their component data.          *)
(***************************************************************************)
C14_HashOfTickAndCount ==
    (game_tick.current = twin.tick.current
        /\ Len(entities) = Len(twin.entities))
        => calculate_state_hash(World) = calculate_state_hash(twin)

\* two simulations at the same tick with as many entities and different
\* stock in their sawmills
C14_Witness ==
    /\ game_tick.current = twin.tick.current
    /\ game_tick.current >= 2
    /\ Len(entities) = Len(twin.entities)
    /\ total_items(entities[1].stockpile)
         # total_items(twin.entities[1].stockpile)
    /\ calculate_state_hash(World) = calculate_state_hash(twin)

(***************************************************************************)
(* save.rs load_and_verify_replay: two simulations; the recorded events    *)
(* are fed to the first, the second runs without events.  The list is one  *)
(* that ReplayRecorder::record_event calls can build: record_event pushes  *)
(* the tick it is given.                                                   *)
(***************************************************************************)
ReplayEventData ==
    {[kind |-> "PlaceBuilding",
      event |-> [building_type |-> "lumberjack",
                 position |-> Position_new(10, 10)]],
     [kind |-> "AssignWorker", event |-> [worker |-> 1, building |-> 2]],
     [kind |-> "StartProduction",
      event |-> [building |-> 1, recipe_id |-> "harvest_wood"]],
     [kind |-> "TransferResource",
      event |-> TransferResourceEvent(1, 2, "wood", 1)]}

ReplayEvent == [tick : 0..MaxReplayTick, event_data : ReplayEventData]

\* ReplayRecorder::record_event
record_event(recorded, tick, event_data) ==
    Append(recorded, [tick |-> tick, event_data |-> event_data])

RECURSIVE Recordings(_)
Recordings(n) ==
    IF n = 0 THEN {<<>>}
    ELSE Recordings(n - 1)
         \cup {record_event(recorded, ev.tick, ev.event_data) :
                  recorded \in Recordings(n - 1), ev \in ReplayEvent}

\* replay_data.events.last().map(|e| e.tick).unwrap_or(0)
final_tick(recorded) ==
    IF recorded = <<>> THEN 0 ELSE recorded[Len(recorded)].tick

\* the match on event.event_data: send_event to the first simulation
apply_event(evs, data) ==
    CASE data.kind = "PlaceBuilding" ->
           [evs EXCEPT !.place_building = Append(@, data.event)]
      [] data.kind = "AssignWorker" ->
           [evs EXCEPT !.assign_worker = Append(@, data.event)]
      [] data.kind = "StartProduction" ->
           [evs EXCEPT !.start_production = Append(@, data.event)]
      [] data.kind = "TransferResource" ->
           [evs EXCEPT !.transfer_resource = Append(@, data.event)]

ReplayInit ==
    /\ SimStart(GameConfig_default, <<>>, NoEvents)
    /\ PathStart(0)
    /\ StockStart(0)
    /\ twin = [tick |-> game_tick, entities |-> entities, events |-> events,
               map |-> map, cache |-> pcache, out |-> StepOutput(<<>>)]
    /\ \E recorded \in Recordings(MaxReplayEvents) :
        replay = [events |-> recorded, next |-> 1, pc |-> "first",
                  hash1 |-> <<>>, hash2 |-> <<>>, is_deterministic |-> FALSE]
    /\ saved = <<>>
    /\ map_call = <<>>

\* while sim1.current_tick() < event.tick { sim1.tick() }
ReplayFastForward ==
    /\ replay.pc = "first"
    /\ replay.next <= Len(replay.events)
    /\ Tick(replay.events[replay.next].tick)

\* the event's tick is reached: send it and go on to the next event
ReplayApply ==
    /\ replay.pc = "first"
    /\ replay.next <= Len(replay.events)
    /\ game_tick.current >= replay.events[replay.next].tick
    /\ events' = apply_event(events, replay.events[replay.next].event_data)
    /\ replay' = [replay EXCEPT !.next = @ + 1]
    /\ UNCHANGED <<game_tick, game_config, entities, sim_out, sim_prev,
                   sim_sent, twin, saved, map_call, pathVars, stockVars>>

\* all events are applied
ReplayEventsDone ==
    /\ replay.pc = "first"
    /\ replay.next > Len(replay.events)
    /\ replay' = [replay EXCEPT !.pc = "second"]
    /\ UNCHANGED <<simVars, twin, saved, map_call, pathVars, stockVars>>

\* sim2.run_ticks(final_tick), one tick at a time
ReplayRunSecond ==
    /\ replay.pc = "second"
    /\ TickTwin(final_tick(replay.events))

\* hash1 == hash2
ReplayCompare ==
    /\ replay.pc = "second"
    /\ twin.tick.current >= final_tick(replay.events)
    /\ replay' = [replay EXCEPT
                     !.pc = "done",
                     !.hash1 = calculate_state_hash(World),
                     !.hash2 = calculate_state_hash(twin),
                     !.is_deterministic =
                         calculate_state_hash(World)
                           = calculate_state_hash(twin)]
    /\ UNCHANGED <<simVars, twin, saved, map_call, pathVars, stockVars>>

ReplayNext ==
    \/ ReplayFastForward
    \/ ReplayApply
    \/ ReplayEventsDone
    \/ ReplayRunSecond
    \/ ReplayCompare

SpecReplay == ReplayInit /\ [][ReplayNext]_vars

(***************************************************************************)
(* C15: when load_and_verify_replay compares the hashes, the simulation    *)
(* that was fed the events and the simulation that ran without events have *)
(* the same tick counter, for every recorded list of (tick, event) pairs.  *)
(***************************************************************************)
C15_SameTicksWhenCompared ==
    replay.pc = "done" => game_tick.current = twin.tick.current

(***************************************************************************)
(* A world restored by load_game_state at tick 0: a lumberjack with room   *)
(* for one worker and that worker assigned, an empty sawmill with room for *)
(* two, the lumberjack's worker and a free worker.                         *)
(***************************************************************************)
SavedLumberjack(constructed) ==
    [Spawn({"Position", "Building", "Stockpile", "Blocked"},
           Position_new(10, 10))
        EXCEPT !.building =
                   [Building_new("lumberjack", 1) EXCEPT
                       !.is_constructed = constructed,
                       !.construction_progress =
                           IF constructed THEN F32One ELSE F32Zero,
                       !.assigned_workers = 1],
               !.stockpile = Stockpile_new(3)]

SavedWorkerAt(building, task) ==
    [Spawn({"Position", "Worker"}, Position_new(10, 10))
        EXCEPT !.worker = [Worker_new("worker") EXCEPT
                              !.assigned_building = building,
                              !.current_task = task]]

AssignInit ==
    /\ \E constructed \in BOOLEAN, task \in {Idle, Working(1, F32Zero)} :
        SimStart(load_from_directory,
                 <<SavedLumberjack(constructed),
                   SavedSawmill(TRUE, FALSE, <<>>),
                   SavedWorkerAt(1, IF constructed THEN task ELSE Idle),
                   SavedWorkerAt(NoEntity, Idle)>>,
                 NoEvents)
    /\ PathStart(0)
    /\ StockStart(0)
    /\ HostStart

AssignNext == SendAssignWorker \/ Tick(MaxTicks)

SpecAssign == AssignInit /\ [][AssignNext]_vars

(***************************************************************************)
(* C16: an AssignWorker request that targets a building whose              *)
(* assigned_workers equals its worker_capacity leaves the building's       *)
(* assigned_workers unchanged, does not assign the worker, and does not    *)
(* change the worker's task: at the end of the step the task is what the   *)
(* step would have made of it without the request.                         *)
(***************************************************************************)
TargetsFullBuilding(ev) ==
    /\ Has(entities, ev.worker, {"Worker"})
    /\ Has(entities, ev.building, {"Building"})
    /\ entities[ev.building].building.assigned_workers
         = entities[ev.building].building.worker_capacity

WithoutAssignRequests == [World EXCEPT !.events.assign_worker = <<>>]

AssignIgnored(ev) ==
    /\ entities'[ev.building].building.assigned_workers
         = entities[ev.building].building.assigned_workers
    /\ entities'[ev.worker].worker.assigned_building
         = entities[ev.worker].worker.assigned_building
    /\ \E bias \in {"low", "high"}, order \in DistributionOrders(entities) :
         entities'[ev.worker].worker.current_task
           = update(WithoutAssignRequests, game_config, bias, order
                   ).entities[ev.worker].worker.current_task

C16_FullBuildingRejects ==
    [][(/\ game_tick'.current = game_tick.current + 1
        /\ Len(events.assign_worker) = 1
        /\ TargetsFullBuilding(events.assign_worker[1]))
          => AssignIgnored(events.assign_worker[1])]_vars

(***************************************************************************)
(* A new simulation whose grid has one Water tile; the host asks for       *)
(* lumberjacks on grass, on the water tile, next to a placed building and  *)
(* outside the grid.                                                       *)
(***************************************************************************)
WaterCell == <<MapWidth - 1, MapHeight - 1>>

OutsideCell == <<MapWidth + 4, MapHeight + 4>>

TerrainInit ==
    /\ SimStart(load_from_directory, <<>>, NoEvents)
    /\ map = set_tile(MapData_new(MapWidth, MapHeight),
                      WaterCell[1], WaterCell[2], Tile("Water")).map
    /\ pcache = PathfindingCache_new(0)
    /\ fp_log = <<>>
    /\ fp_changed = FALSE
    /\ fp_edits = 0
    /\ StockStart(0)
    /\ HostStart

TerrainRequests ==
    {[building_type |-> "lumberjack", position |-> position] :
        position \in {Position_new(0, 0), Position_new(1, 0),
                      WaterCell, OutsideCell}}

\* send_event(PlaceBuildingEvent { building_type, position })
SendPlaceOnTerrain ==
    /\ sim_sent.place_building < MaxPlacements
    /\ \E request \in TerrainRequests :
        events' = [events EXCEPT !.place_building = Append(@, request)]
    /\ sim_sent' = [sim_sent EXCEPT !.place_building = @ + 1]
    /\ UNCHANGED <<game_tick, game_config, entities, sim_out, sim_prev,
                   pathVars, stockVars, hostVars>>

TerrainNext == SendPlaceOnTerrain \/ Tick(MaxTicks)

SpecTerrain == TerrainInit /\ [][TerrainNext]_vars

(***************************************************************************)
(* C17: a PlaceBuilding request whose target is occupied by an existing    *)
(* building or lies on invalid terrain (outside the grid or on an          *)
(* impassable tile) is dropped: no step spawns a building on such a        *)
(* target.                                                                 *)
(***************************************************************************)
InvalidTerrain(position) ==
    \/ ~is_valid_position(map, position[1], position[2])
    \/ ~is_passable(get_tile(map, position[1], position[2]).tile)

OccupiedBefore(e) ==
    is_position_occupied(BuildingPositions(sim_prev), entities[e].position,
        game_config.buildings[entities[e].building.building_type].size)

C17_InvalidPlacementDropped ==
    \A i \in DOMAIN sim_out.placed :
        /\ ~InvalidTerrain(entities[sim_out.placed[i]].position)
        /\ ~OccupiedBefore(sim_out.placed[i])

(***************************************************************************)
(* C18: a StartProduction request that names a recipe id the configuration *)
(* does not know is ignored: after the step the Producer of the target     *)
(* building (recipe_id, production_progress, is_producing) is what the     *)
(* step would have made of it without the request.                         *)
(***************************************************************************)
NamesUnknownRecipe(ev) ==
    /\ Has(entities, ev.building, {"Producer"})
    /\ ev.recipe_id \notin DOMAIN game_config.recipes

WithoutStartRequests == [World EXCEPT !.events.start_production = <<>>]

StartIgnored(ev) ==
    \E bias \in {"low", "high"}, order \in DistributionOrders(entities) :
        entities'[ev.building].producer
          = update(WithoutStartRequests, game_config, bias, order
                  ).entities[ev.building].producer

C18_UnknownRecipeIgnored ==
    [][(/\ game_tick'.current = game_tick.current + 1
        /\ Len(events.start_production) = 1
        /\ NamesUnknownRecipe(events.start_production[1]))
          => StartIgnored(events.start_production[1])]_vars

(***************************************************************************)
(* MapData on its own: a grid built by MapData::new(width, height), then   *)
(* get_tile and set_tile calls with coordinates inside the grid, one tile  *)
(* beyond each edge, and negative.                                         *)
(***************************************************************************)
ProbeXs == (0 - 1)..MapWidth

ProbeYs == (0 - 1)..MapHeight

MapCall(op, x, y, tile, ret, before) ==
    [op |-> op, x |-> x, y |-> y, tile |-> tile, ret |-> ret,
     before |-> before]

MapInit ==
    /\ \E width \in 0..MapWidth, height \in 0..MapHeight :
        /\ map = MapData_new(width, height)
        /\ map_call = MapCall("new", width, height, Tile("Grass"), TRUE,
                              MapData_new(width, height))
    /\ pcache = PathfindingCache_new(0)
    /\ fp_log = <<>>
    /\ fp_changed = FALSE
    /\ fp_edits = 0
    /\ StockStart(0)
    /\ SimNew
    /\ twin = <<>>
    /\ replay = <<>>
    /\ saved = <<>>

ProbeGetTile ==
    /\ \E x \in ProbeXs, y \in ProbeYs :
        map_call' = MapCall("get_tile", x, y, Tile("Grass"),
                            get_tile(map, x, y), map)
    /\ UNCHANGED <<map, pcache, fp_log, fp_changed, fp_edits, twin, replay,
                   saved, simVars, stockVars>>

ProbeSetTile ==
    /\ fp_edits < MaxEdits
    /\ \E x \in ProbeXs, y \in ProbeYs, t \in TileTypes \ {"Grass"} :
        \E r \in {set_tile(map, x, y, Tile(t))} :
        /\ map' = r.map
        /\ map_call' = MapCall("set_tile", x, y, Tile(t), r.ret, map)
    /\ fp_edits' = fp_edits + 1
    /\ UNCHANGED <<pcache, fp_log, fp_changed, twin, replay, saved, simVars,
                   stockVars>>

MapNext == ProbeGetTile \/ ProbeSetTile

SpecMap == MapInit /\ [][MapNext]_vars

(***************************************************************************)
(* C19: on a grid built by MapData::new(width, height), get_tile(x, y)     *)
(* returns None and set_tile(x, y, t) returns false and changes no tile    *)
(* exactly when (x, y) is outside 0 <= x < width, 0 <= y < height; an      *)
(* in-bounds set_tile returns true, changes only that tile, and a          *)
(* following get_tile returns it; width and height never change.           *)
(***************************************************************************)
InGrid(grid, x, y) == 0 <= x /\ x < grid.width /\ 0 <= y /\ y < grid.height

GridCells(grid) == (0..(grid.width - 1)) \X (0..(grid.height - 1))

C19_GetTile(c) ==
    /\ c.ret.some <=> InGrid(c.before, c.x, c.y)
    /\ c.ret.some => c.ret.tile = c.before.tiles[<<c.x, c.y>>]
    /\ map = c.before

C19_SetTile(c) ==
    /\ c.ret <=> InGrid(c.before, c.x, c.y)
    /\ ~c.ret => map = c.before
    /\ c.ret =>
         /\ map.tiles[<<c.x, c.y>>] = c.tile
         /\ \A cell \in GridCells(c.before) \ {<<c.x, c.y>>} :
              map.tiles[cell] = c.before.tiles[cell]
         /\ get_tile(map, c.x, c.y) = [some |-> TRUE, tile |-> c.tile]

C19_MapBounds ==
    /\ map.width = map_call.before.width
    /\ map.height = map_call.before.height
    /\ DOMAIN map.tiles = GridCells(map_call.before)
    /\ map_call.op = "get_tile" => C19_GetTile(map_call)
    /\ map_call.op = "set_tile" => C19_SetTile(map_call)

\* a set_tile one tile beyond the right edge of a grid that has tiles was
\* refused and left the grid as it was
C19_Witness ==
    /\ map_call.op = "set_tile"
    /\ map_call.x = map_call.before.width
    /\ map_call.before.width > 0
    /\ map_call.y \in 0..(map_call.before.height - 1)
    /\ map_call.ret = FALSE
    /\ map = map_call.before

(***************************************************************************)
(* save.rs: save_game_state writes tick, grid and, per entity, the eight   *)
(* optional components of EntityComponents; load_game_state clears the     *)
(* world and spawns one entity per saved entry.  The RON text in between   *)
(* is taken to give back the GameState it was written from.                *)
(***************************************************************************)
None == [some |-> FALSE]

Some(value) == [some |-> TRUE, value |-> value]

\* Option<&T>.cloned() of the query
Component(ent, name, value) == IF name \in ent.has THEN Some(value) ELSE None

EntityComponents(ent) ==
    [position |-> Component(ent, "Position", ent.position),
     building |-> Component(ent, "Building", ent.building),
     stockpile |-> Component(ent, "Stockpile", ent.stockpile),
     worker |-> Component(ent, "Worker", ent.worker),
     producer |-> Component(ent, "Producer", ent.producer),
     tile |-> None,
     blocked |-> "Blocked" \in ent.has,
     road |-> None]

\* id: entity.index(), counted from 0
SerializableEntity(ents, e) ==
    [id |-> e - 1, components |-> EntityComponents(ents[e])]

RECURSIVE Orderings(_)
Orderings(S) ==
    IF S = {} THEN {<<>>}
    ELSE UNION {{<<x>> \o rest : rest \in Orderings(S \ {x})} : x \in S}

RECURSIVE InArchetype(_, _, _)
InArchetype(ents, has, e) ==
    IF e > Len(ents) THEN <<>>
    ELSE (IF ents[e].has = has THEN <<e>> ELSE <<>>)
         \o InArchetype(ents, has, e + 1)

RECURSIVE ByArchetype(_, _)
ByArchetype(ents, archetypes) ==
    IF archetypes = <<>> THEN <<>>
    ELSE InArchetype(ents, Head(archetypes), 1)
         \o ByArchetype(ents, Tail(archetypes))

\* the orders query.iter(world) may yield the entities in: archetype by
\* archetype, the entities of one archetype together
QueryIterOrders(ents) ==
    {ByArchetype(ents, archetypes) :
        archetypes \in Orderings({ents[e].has : e \in DOMAIN ents})}

RECURSIVE serialize_entities(_, _)
serialize_entities(ents, order) ==
    IF order = <<>> THEN <<>>
    ELSE <<SerializableEntity(ents, Head(order))>>
         \o serialize_entities(ents, Tail(order))

save_game_state(w, order) ==
    [version |-> "CARGO_PKG_VERSION", tick |-> w.tick.current,
     map_data |-> w.map, entities |-> serialize_entities(w.entities, order)]

ComponentNames(components) ==
    {name \in {"Position", "Building", "Stockpile", "Worker", "Producer"} :
        CASE name = "Position" -> components.position.some
          [] name = "Building" -> components.building.some
          [] name = "Stockpile" -> components.stockpile.some
          [] name = "Worker" -> components.worker.some
          [] name = "Producer" -> components.producer.some}
    \cup (IF components.blocked THEN {"Blocked"} ELSE {})

\* spawn_empty and the inserts of the components that are Some
load_entity_without_producer(components) ==
    [has |-> ComponentNames(components) \ {"Producer"},
     position |-> IF components.position.some
                  THEN components.position.value ELSE Position_new(0, 0),
     building |-> IF components.building.some
                  THEN components.building.value ELSE Building_new("", 0),
     stockpile |-> IF components.stockpile.some
                   THEN components.stockpile.value ELSE Stockpile_new(0),
     producer |-> Producer_new(""),
     worker |-> IF components.worker.some
                THEN components.worker.value ELSE Worker_new(""),
     pathfinding |-> Pathfinding_new(<<>>)]

load_entity(components) ==
    [has |-> ComponentNames(components),
     position |-> IF components.position.some
                  THEN components.position.value ELSE Position_new(0, 0),
     building |-> IF components.building.some
                  THEN components.building.value ELSE Building_new("", 0),
     stockpile |-> IF components.stockpile.some
                   THEN components.stockpile.value ELSE Stockpile_new(0),
     producer |-> IF components.producer.some
                  THEN components.producer.value ELSE Producer_new(""),
     worker |-> IF components.worker.some
                THEN components.worker.value ELSE Worker_new(""),
     pathfinding |-> Pathfinding_new(<<>>)]

RECURSIVE load_entities(_)
load_entities(saved_entities) ==
    IF saved_entities = <<>> THEN <<>>
    ELSE <<load_entity(Head(saved_entities).components)>>
         \o load_entities(Tail(saved_entities))

\* world.clear_entities(), tick.current = game_state.tick,
\* insert_resource(map_data), then the spawns
load_game_state(w, game_state) ==
    [w EXCEPT !.tick.current = game_state.tick,
              !.map = game_state.map_data,
              !.entities = load_entities(game_state.entities)]

\* SimulationApp::new(): the world load_state loads into
FreshWorld ==
    [tick |-> GameTick_new(20), entities |-> <<>>, events |-> NoEvents,
     map |-> MapData_new(0, 0), cache |-> PathfindingCache_new(0),
     out |-> StepOutput(<<>>)]

(***************************************************************************)
(* A simulation restored from a save (a sawmill with its Producer and its  *)
(* worker), advanced a few ticks, then saved, and the save loaded into a   *)
(* second, new simulation.                                                 *)
(***************************************************************************)
SaveInit ==
    /\ \E constructed \in BOOLEAN, items \in SavedItems :
        SimStart(load_from_directory,
                 <<SavedSawmill(constructed, TRUE, items), SavedWorker(TRUE)>>,
                 NoEvents)
    /\ PathStart(0)
    /\ StockStart(0)
    /\ HostStart

\* SimulationApp::save_state
SaveGame ==
    /\ saved = <<>>
    /\ \E order \in QueryIterOrders(entities) :
        saved' = save_game_state(World, order)
    /\ UNCHANGED <<twin, replay, map_call, simVars, pathVars, stockVars>>

\* SimulationApp::load_state on a new simulation
LoadGame ==
    /\ saved # <<>>
    /\ twin = <<>>
    /\ twin' = load_game_state(FreshWorld, saved)
    /\ UNCHANGED <<saved, replay, map_call, simVars, pathVars, stockVars>>

SaveNext == (saved = <<>> /\ Tick(MaxSaveTicks)) \/ SaveGame \/ LoadGame

SpecSave == SaveInit /\ [][SaveNext]_vars

(***************************************************************************)
(* C20: saving a world and loading the snapshot into a fresh world         *)
(* restores the same tick counter and grid and the same collection of      *)
(* entities with identical component payloads (position, building,         *)
(* stockpile, worker with its assigned-building reference, producer, tile, *)
(* blocked flag, road), up to entity order.                                *)
(***************************************************************************)
Payload(ent) ==
    [position |-> IF "Position" \in ent.has THEN <<ent.position>> ELSE <<>>,
     building |-> IF "Building" \in ent.has THEN <<ent.building>> ELSE <<>>,
     stockpile |-> IF "Stockpile" \in ent.has THEN <<ent.stockpile>> ELSE <<>>,
     worker |-> IF "Worker" \in ent.has THEN <<ent.worker>> ELSE <<>>,
     producer |-> IF "Producer" \in ent.has THEN <<ent.producer>> ELSE <<>>,
     blocked |-> "Blocked" \in ent.has]

Payloads(ents) == [e \in DOMAIN ents |-> Payload(ents[e])]

SameUpToOrder(a, b) ==
    /\ Len(a) = Len(b)
    /\ \A i \in DOMAIN a : Occurrences(a, a[i]) = Occurrences(b, a[i])

C21_TickAdvancesByOne ==
    /\ game_tick.current = 0
    /\ [][IF Tick(MaxTicks)
          THEN game_tick'.current = game_tick.current + 1
          ELSE game_tick' = game_tick]_vars

\* several updates were made, with buildings placed in between
C21_Witness ==
    /\ game_tick.current = MaxTicks
    /\ sim_sent.place_building > 0
    /\ QueryOrder(entities, {"Building"}) # {}

(***************************************************************************)
(* A world restored by load_game_state at tick 0 on the small grid: a      *)
(* lumberjack at the far end of the grid, a sawmill holding one wood, and  *)
(* one worker in the corner next to the sawmill, saved in any of the tasks *)
(* a worker can be saved in.  The grid is all grass, or its middle column  *)
(* is water and cuts the lumberjack off.  A save holds no Pathfinding      *)
(* component, so every path walked is one the simulation computed.         *)
(***************************************************************************)
At(ent, position) == [ent EXCEPT !.position = position]

WorkerCorner == Position_new(0, 0)
SawmillCell == Position_new(0, 1)
LumberjackCell == Position_new(MapWidth - 1, 0)

WaterColumn ==
    [MapData_new(MapWidth, MapHeight) EXCEPT
        !.tiles = [p \in DOMAIN @ |->
                      IF p[1] = 1 THEN Tile("Water") ELSE @[p]]]

WalkMaps == {MapData_new(MapWidth, MapHeight), WaterColumn}

\* [assigned_building, current_task, carrying] of the saved worker
SavedWorkerStates ==
    {<<1, Idle, NoCargo>>,
     <<NoEntity, Idle, NoCargo>>,
     <<NoEntity, MovingTo(WorkerCorner, GoToWork), NoCargo>>,
     <<1, MovingTo(LumberjackCell, PickupResource("wood", 1)), NoCargo>>,
     <<NoEntity, MovingTo(WorkerCorner, DeliverResource("wood", 1)),
       Cargo("wood", 1)>>,
     <<NoEntity, MovingTo(WorkerCorner, Construction), Cargo("wood", 1)>>,
     <<NoEntity, Carrying(SawmillCell, WorkerCorner, "wood", 1),
       Cargo("wood", 1)>>}

SavedWorkerIn(state) ==
    [Spawn({"Position", "Worker"}, WorkerCorner)
        EXCEPT !.worker = [Worker_new("worker") EXCEPT
                              !.assigned_building = state[1],
                              !.current_task = state[2],
                              !.carrying = state[3]]]

WalkInit ==
    /\ \E constructed \in BOOLEAN, state \in SavedWorkerStates :
        SimStart(load_from_directory,
                 <<At(SavedLumberjack(constructed), LumberjackCell),
                   At(SavedSawmill(FALSE, FALSE, "wood" :> 1), SawmillCell),
                   SavedWorkerIn(state)>>,
                 NoEvents)
    /\ map \in WalkMaps
    /\ pcache = PathfindingCache_new(0)
    /\ fp_log = <<>>
    /\ fp_changed = FALSE
    /\ fp_edits = 0
    /\ StockStart(0)
    /\ HostStart

\* send_event(TransferResourceEvent { from, to, resource, amount }) for the
\* wood of the sawmill, before the first or the second update
SendTransferResource ==
    /\ game_tick.current <= 1
    /\ events.transfer_resource = <<>>
    /\ events' = [events EXCEPT !.transfer_resource =
                     <<TransferResourceEvent(2, 1, "wood", 1)>>]
    /\ UNCHANGED <<game_tick, game_config, entities, sim_out, sim_prev,
                   sim_sent, pathVars, stockVars, hostVars>>

WalkNext == SendAssignWorker \/ SendTransferResource \/ Tick(MaxWalkTicks)

SpecWalk == WalkInit /\ [][WalkNext]_vars

(***************************************************************************)
(* C22: a worker whose AssignWorker request is processed in an update has  *)
(* the same Position at the end of that update as at its start.            *)
(***************************************************************************)
AssignedThisStep ==
    {events.assign_worker[i].worker : i \in DOMAIN events.assign_worker}
    \cap QueryOrder(entities, {"Worker", "Position"})

C22_AssignedWorkerStaysPut ==
    [][game_tick' # game_tick =>
        \A e \in AssignedThisStep :
            entities'[e].position = entities[e].position]_vars

\* the same for the workers that are not in the middle of a path when the
\* update starts
OnOldPath(e) ==
    /\ "Pathfinding" \in entities[e].has
    /\ current_target(entities[e].pathfinding).some
    /\ current_target(entities[e].pathfinding).position # entities[e].position

C22_StaysPutUnlessOnOldPath ==
    [][game_tick' # game_tick =>
        \A e \in AssignedThisStep :
            ~OnOldPath(e) => entities'[e].position = entities[e].position]_vars

\* the walking world with updates that keep coming: the host calls tick()
\* as long as the bound allows.  An update is possible exactly while the
\* counter is below the bound, and the updates are the steps that advance
\* the counter, so fairness is stated on the counter.
TickTaken ==
    /\ game_tick.current < MaxWalkTicks
    /\ game_tick' = [game_tick EXCEPT !.current = @ + 1]

SpecWalkFair == SpecWalk /\ WF_game_tick(TickTaken)

\* the world worker_ai_system of the next update starts from, and the world
\* it leaves
BeforeWorkerAI ==
    production_system(
     construction_system(
      start_production_system(
       worker_assignment_system(
        building_placement_system(advance_tick_system(World), game_config))),
      game_config),
     game_config)

AfterWorkerAI == worker_ai_system(BeforeWorkerAI)

\* the path requests of a world that name entity e
RequestsOf(w, e) ==
    {i \in DOMAIN w.events.pathfinding_request :
        w.events.pathfinding_request[i].entity = e}

(***************************************************************************)
(* C23: a worker whose path request was answered with no route does not    *)
(* stay in its MovingTo or Carrying task forever: eventually the task is   *)
(* abandoned, or a path request for the worker is made again.              *)
(***************************************************************************)
TaskTarget(task) ==
    CASE task.kind = "MovingTo" -> task.target
      [] task.kind = "Carrying" -> task.to
      [] OTHER -> <<>>

InTravelTask(e) ==
    /\ Has(entities, e, {"Worker", "Position"})
    /\ entities[e].worker.current_task.kind \in {"MovingTo", "Carrying"}

\* the worker travels to a target no route leads to, and pathfinding has
\* answered: no request of the worker is pending and it holds no path
WithoutRoute(e) ==
    /\ InTravelTask(e)
    /\ ~RouteExists(entities[e].position,
                    TaskTarget(entities[e].worker.current_task))
    /\ RequestsOf(World, e) = {}
    /\ pcache.cache_misses > 0
    /\ "Pathfinding" \notin entities[e].has

WalkWorkers == 3..8

C23_NoRouteTaskIsGivenUp ==
    \A e \in WalkWorkers :
        WithoutRoute(e) ~> (~InTravelTask(e) \/ RequestsOf(World, e) # {})

\* an update that processes no AssignWorker request leaves such a worker as
\* it is: its worker-AI step and the systems after it make no path request
\* for it, and the worker ends the update unchanged
C23_WithoutRouteIsFixpoint ==
    [][\A e \in WalkWorkers :
          (game_tick' # game_tick /\ WithoutRoute(e)
             /\ events.assign_worker = <<>>)
          => /\ entities'[e] = entities[e]
             /\ RequestsOf(AfterWorkerAI, e) = {}
             /\ \A i \in DOMAIN events'.pathfinding_request :
                   events'.pathfinding_request[i].entity # e]_vars

(***************************************************************************)
(* The worker-AI step of the next update, seen from the state between two  *)
(* updates: b is the world worker_ai_system starts from, a the world it    *)
(* leaves.                                                                 *)
(***************************************************************************)
AIWorkers(b) == QueryOrder(b.entities, {"Worker", "Position"})

\* the path requests worker_ai_system sends for worker e
AIRequests(b, a, e) ==
    {i \in RequestsOf(a, e) : i > Len(b.events.pathfinding_request)}

\* the task types of the TaskCompleted events worker_ai_system sends for
\* worker e, one entry per event
AICompletions(b, a, e) ==
    [i \in {k \in DOMAIN a.events.task_completed :
              /\ k > Len(b.events.task_completed)
              /\ a.events.task_completed[k].worker = e}
        |-> a.events.task_completed[i].task_type]

\* exactly one TaskCompleted event is sent for worker e, of this type
CompletesOnce(b, a, e, task_type) ==
    /\ Cardinality(DOMAIN AICompletions(b, a, e)) = 1
    /\ \A i \in DOMAIN AICompletions(b, a, e) :
          AICompletions(b, a, e)[i] = task_type

\* worker_ai_system changes nothing of the worker and sends nothing for it
LeftAlone(b, a, e) ==
    /\ a.entities[e] = b.entities[e]
    /\ AIRequests(b, a, e) = {}
    /\ DOMAIN AICompletions(b, a, e) = {}

\* worker_ai_system changes nothing of the worker but its task and cargo
OnlyTaskChanges(b, a, e) ==
    a.entities[e] =
        [b.entities[e] EXCEPT
            !.worker.current_task = a.entities[e].worker.current_task,
            !.worker.carrying = a.entities[e].worker.carrying]

(***************************************************************************)
(* C24: in the worker-AI step an Idle worker goes to MovingTo{position of  *)
(* its assigned building, GoToWork} and one path request from its position *)
(* to the building is sent, exactly when it has an assigned building that  *)
(* exists and is constructed; every other Idle worker stays Idle and       *)
(* nothing is sent for it.                                                 *)
(***************************************************************************)
HasBuiltAssignment(b, e) ==
    /\ b.entities[e].worker.assigned_building # NoEntity
    /\ Has(b.entities, b.entities[e].worker.assigned_building, {"Building"})
    /\ b.entities[b.entities[e].worker.assigned_building
                 ].building.is_constructed

AssignedPosition(b, e) ==
    b.entities[b.entities[e].worker.assigned_building].position

IdleGoesToWork(b, a, e) ==
    IF HasBuiltAssignment(b, e)
    THEN /\ a.entities[e].worker.current_task =
                MovingTo(AssignedPosition(b, e), GoToWork)
         /\ a.entities[e].worker.carrying = b.entities[e].worker.carrying
         /\ OnlyTaskChanges(b, a, e)
         /\ Cardinality(AIRequests(b, a, e)) = 1
         /\ \A i \in AIRequests(b, a, e) :
               a.events.pathfinding_request[i] =
                   PathfindingRequestEvent(e, b.entities[e].position,
                                           AssignedPosition(b, e))
         /\ DOMAIN AICompletions(b, a, e) = {}
    ELSE LeftAlone(b, a, e)

C24_IdleGoesToWork ==
    \A b \in {BeforeWorkerAI} : \A a \in {worker_ai_system(b)} :
        \A e \in AIWorkers(b) :
            b.entities[e].worker.current_task.kind = "Idle"
                => IdleGoesToWork(b, a, e)

\* the next worker-AI step sends one worker to its constructed building
\* and leaves another Idle worker, assigned to an unfinished one, alone
C24_Witness ==
    \E b \in {BeforeWorkerAI} :
        /\ \E e \in AIWorkers(b) :
              /\ b.entities[e].worker.current_task.kind = "Idle"
              /\ HasBuiltAssignment(b, e)
              /\ AssignedPosition(b, e) # b.entities[e].position
        /\ \E e \in AIWorkers(b) :
              /\ b.entities[e].worker.current_task.kind = "Idle"
              /\ b.entities[e].worker.assigned_building # NoEntity
              /\ ~HasBuiltAssignment(b, e)

(***************************************************************************)
(* C25: in the worker-AI step a worker in MovingTo{target, purpose} is     *)
(* left alone unless its position is less than 1 tile from target.  Then   *)
(* GoToWork gives Working{assigned building, progress 0}, or Idle for a    *)
(* worker without assignment, and no completion event; PickupResource      *)
(* sets the cargo to (item, amount), sends one TaskCompleted "pickup" and  *)
(* gives Idle; DeliverResource clears the cargo, sends one "delivery" and  *)
(* gives Idle; Construction sends one "construction" and gives Idle.       *)
(***************************************************************************)
ArrivesAs(b, a, e, purpose) ==
    CASE purpose.kind = "GoToWork" ->
            /\ a.entities[e].worker.current_task =
                  IF b.entities[e].worker.assigned_building # NoEntity
                  THEN Working(b.entities[e].worker.assigned_building,
                               F32Zero)
                  ELSE Idle
            /\ a.entities[e].worker.carrying = b.entities[e].worker.carrying
            /\ DOMAIN AICompletions(b, a, e) = {}
      [] purpose.kind = "PickupResource" ->
            /\ a.entities[e].worker.current_task = Idle
            /\ a.entities[e].worker.carrying =
                  Cargo(purpose.item, purpose.amount)
            /\ CompletesOnce(b, a, e, "pickup")
      [] purpose.kind = "DeliverResource" ->
            /\ a.entities[e].worker.current_task = Idle
            /\ a.entities[e].worker.carrying = NoCargo
            /\ CompletesOnce(b, a, e, "delivery")
      [] purpose.kind = "Construction" ->
            /\ a.entities[e].worker.current_task = Idle
            /\ a.entities[e].worker.carrying = b.entities[e].worker.carrying
            /\ CompletesOnce(b, a, e, "construction")

\* distance_to(target) < 1.0 for integer coordinates
LessThanOneTile(from, to) ==
    (from[1] - to[1]) * (from[1] - to[1])
        + (from[2] - to[2]) * (from[2] - to[2]) < 1

MovingToResolves(b, a, e) ==
    IF LessThanOneTile(b.entities[e].position,
                       b.entities[e].worker.current_task.target)
    THEN /\ ArrivesAs(b, a, e, b.entities[e].worker.current_task.purpose)
         /\ OnlyTaskChanges(b, a, e)
         /\ AIRequests(b, a, e) = {}
    ELSE LeftAlone(b, a, e)

C25_MovingToResolvesAtTarget ==
    \A b \in {BeforeWorkerAI} : \A a \in {worker_ai_system(b)} :
        \A e \in AIWorkers(b) :
            b.entities[e].worker.current_task.kind = "MovingTo"
                => MovingToResolves(b, a, e)

\* a worker that walked to its target arrives in the next worker-AI step.
\* One witness per purpose the simulation hands out itself.
WalkedTo(b, e, purpose_kind) ==
    /\ b.entities[e].worker.current_task.kind = "MovingTo"
    /\ b.entities[e].worker.current_task.purpose.kind = purpose_kind
    /\ b.entities[e].position = b.entities[e].worker.current_task.target

C25_Witness ==
    \E b \in {BeforeWorkerAI} : \E e \in AIWorkers(b) :
        /\ WalkedTo(b, e, "PickupResource")
        /\ "Pathfinding" \in b.entities[e].has
        /\ b.entities[e].pathfinding.current_target_index > 0

(***************************************************************************)
(* A world restored by load_game_state at tick 0: a constructed lumberjack *)
(* and its worker standing at it, saved Idle or at the start of Working.   *)
(* The host only calls tick().                                             *)
(***************************************************************************)
WorkInit ==
    /\ \E task \in {Idle, Working(1, F32Zero)} :
        SimStart(load_from_directory,
                 <<SavedLumberjack(TRUE), SavedWorkerAt(1, task)>>,
                 NoEvents)
    /\ PathStart(0)
    /\ StockStart(0)
    /\ HostStart

WorkNext == Tick(MaxWorkTicks)

SpecWork == WorkInit /\ [][WorkNext]_vars

(***************************************************************************)
(* C26: a worker in Working gains delta_time of progress in every update;  *)
(* the update in which the progress reaches 10 seconds of work, which is   *)
(* the 10 x target_tps-th update of the task, sends exactly one            *)
(* TaskCompleted "work" for it and leaves it Idle; in every update before  *)
(* it the worker stays in Working and nothing is sent for it.              *)
(***************************************************************************)
WorkTicks == 10 * game_tick.target_tps

\* <<0, dt, dt + dt, ...>>: the progress after 0, 1, 2, ... updates, as
\* f32 additions of dt
RECURSIVE ProgressAfter(_, _, _)
ProgressAfter(table, dt, n) ==
    IF n = 0 \/ Len(table) = 0 THEN table
    ELSE ProgressAfter(Append(table, F32Add(table[Len(table)], dt)),
                       dt, n - 1)

\* the same, 20 additions at a time
RECURSIVE ProgressTable(_, _, _)
ProgressTable(table, dt, chunks) ==
    IF chunks = 0 \/ Len(table) = 0 THEN table
    ELSE ProgressTable(ProgressAfter(table, dt, 20), dt, chunks - 1)

WorkProgress ==
    ProgressTable(<<F32Zero>>, delta_time(GameTick_new(20)), 10)

WorkEventsOf(out, e) ==
    {i \in DOMAIN out.task_completed :
        out.task_completed[i] = TaskCompletedEvent(e, "work")}

WorkStep(e, n) ==
    /\ entities[e].worker.current_task.progress = WorkProgress[n + 1]
    /\ IF n + 1 < WorkTicks
       THEN /\ entities'[e].worker.current_task =
                  Working(entities[e].worker.current_task.building,
                          WorkProgress[n + 2])
            /\ WorkEventsOf(sim_out', e) = {}
       ELSE /\ entities'[e].worker.current_task = Idle
            /\ Cardinality(WorkEventsOf(sim_out', e)) = 1

CarryingResolves(b, a, e) ==
    IF LessThanOneTile(b.entities[e].position,
                       b.entities[e].worker.current_task.to)
    THEN /\ a.entities[e].worker.current_task = Idle
         /\ a.entities[e].worker.carrying = NoCargo
         /\ CompletesOnce(b, a, e, "delivery")
         /\ OnlyTaskChanges(b, a, e)
         /\ AIRequests(b, a, e) = {}
    ELSE LeftAlone(b, a, e)

C27_CarryingResolvesAtDestination ==
    \A b \in {BeforeWorkerAI} : \A a \in {worker_ai_system(b)} :
        \A e \in AIWorkers(b) :
            b.entities[e].worker.current_task.kind = "Carrying"
                => CarryingResolves(b, a, e)

\* a worker that picked up wood at the sawmill and carried it along its
\* path to the lumberjack delivers in the next worker-AI step
C27_Witness ==
    \E b \in {BeforeWorkerAI} : \E e \in AIWorkers(b) :
        /\ b.entities[e].worker.current_task.kind = "Carrying"
        /\ b.entities[e].position = b.entities[e].worker.current_task.to
        /\ b.entities[e].position # b.entities[e].worker.current_task.from
        /\ b.entities[e].worker.carrying = Cargo("wood", 1)
        /\ "Pathfinding" \in b.entities[e].has

(***************************************************************************)
(* C28: worker_ai_system never puts a worker into Carrying.  A worker      *)
(* enters Carrying only in an update in which worker_ai_system sent a      *)
(* TaskCompleted "pickup" for it, and it then holds cargo: the task is     *)
(* Carrying{its position, ., the cargo's item, the cargo's amount}.        *)
(***************************************************************************)
IsCarrying(ents, e) ==
    /\ Has(ents, e, {"Worker"})
    /\ ents[e].worker.current_task.kind = "Carrying"

PickupsOf(out, e) ==
    {i \in DOMAIN out.task_completed :
        out.task_completed[i] = TaskCompletedEvent(e, "pickup")}

EntersCarrying(e) ==
    /\ IsCarrying(entities', e)
    /\ ~(IsCarrying(entities, e)
         /\ entities'[e].worker.current_task
              = entities[e].worker.current_task)

C28_CarryingOnlyAfterPickup ==
    [][/\ \A b \in {BeforeWorkerAI} : \A a \in {worker_ai_system(b)} :
             \A e \in 1..Len(a.entities) :
                 IsCarrying(a.entities, e) =>
                     /\ IsCarrying(b.entities, e)
                     /\ a.entities[e].worker.current_task
                          = b.entities[e].worker.current_task
       /\ \A e \in 1..Len(entities') :
             EntersCarrying(e) =>
                 /\ game_tick' # game_tick
                 /\ PickupsOf(sim_out', e) # {}
                 /\ entities'[e].worker.carrying.some
                 /\ entities'[e].worker.current_task.from
                      = entities'[e].position
                 /\ entities'[e].worker.current_task.item
                      = entities'[e].worker.carrying.item
                 /\ entities'[e].worker.current_task.amount
                      = entities'[e].worker.carrying.amount]_vars

\* a worker that the last update put into Carrying after its pickup
C28_Witness ==
    \E e \in QueryOrder(entities, {"Worker"}) :
        /\ IsCarrying(entities, e)
        /\ sim_prev[e].worker.current_task.kind = "MovingTo"
        /\ PickupsOf(sim_out, e) # {}
        /\ entities[e].worker.carrying = Cargo("wood", 1)

(***************************************************************************)
(* C29: movement snaps an entity to one waypoint of its path per update,   *)
(* in path order and without skipping one.  An entity given a path of k    *)
(* waypoints stands on waypoint i after its i-th movement step, for        *)
(* 1 <= i <= k; after the k-th step every waypoint is consumed             *)
(* (advance_target has nothing left to advance to) and further movement    *)
(* steps change nothing of the entity.  Checked for every path the         *)
(* simulation computes, and in the run itself an entity with a path always *)
(* stands on the waypoint its path has reached.                            *)
(***************************************************************************)
\* commands.entity(e).insert(Pathfinding::new(path))
GivenPath(w, e, path) ==
    [w EXCEPT !.entities[e].has = @ \cup {"Pathfinding"},
              !.entities[e].pathfinding = Pathfinding_new(path)]

\* n runs of movement_system
RECURSIVE MoveSteps(_, _)
MoveSteps(w, n) ==
    IF n = 0 \/ Len(w.entities) = 0 THEN w
    ELSE MoveSteps(movement_system(w), n - 1)

Walkers == QueryOrder(entities, {"Position", "Pathfinding"})

WaypointPerStep(e, path) ==
    \A i \in 1..(Len(path) + 2) :
        \A w \in {MoveSteps(GivenPath(World, e, path), i)} :
            /\ w.entities[e].position = path[Min(i, Len(path))]
            /\ i >= Len(path) =>
                  /\ advance_target(w.entities[e].pathfinding)
                        = w.entities[e].pathfinding
                  /\ movement_system(w).entities[e] = w.entities[e]

\* where the entity stands when its path has reached index j
OnReachedWaypoint(e) ==
    \/ /\ entities[e].pathfinding.current_target_index >= 1
       /\ entities[e].position =
             entities[e].pathfinding.path[
                 entities[e].pathfinding.current_target_index]
    \/ /\ entities[e].pathfinding.current_target_index
             = Len(entities[e].pathfinding.path) - 1
       /\ entities[e].position =
             entities[e].pathfinding.path[Len(entities[e].pathfinding.path)]

C29_OneWaypointPerStep ==
    \A e \in Walkers :
        /\ Len(entities[e].pathfinding.path) >= 1
        /\ WaypointPerStep(e, entities[e].pathfinding.path)
        /\ OnReachedWaypoint(e)

\* a worker that has walked its three waypoints and stands on the last
C29_Witness ==
    \E e \in Walkers :
        /\ Len(entities[e].pathfinding.path) >= 3
        /\ entities[e].position =
              entities[e].pathfinding.path[Len(entities[e].pathfinding.path)]
        /\ sim_prev[e].position # entities[e].position

(***************************************************************************)
(* A world restored by load_game_state a few updates before tick 100:      *)
(* three constructed buildings with stockpiles of the same archetype, the  *)
(* first and possibly the third holding more than they need, the second    *)
(* short of wood, well stocked, or without room.  The host only calls      *)
(* tick().                                                                 *)
(***************************************************************************)
SavedStore(position, capacity, items) ==
    [Spawn({"Position", "Building", "Stockpile", "Blocked"}, position)
        EXCEPT !.building =
                   [Building_new("lumberjack", 1) EXCEPT
                       !.is_constructed = TRUE,
                       !.construction_progress = F32One],
               !.stockpile = [Stockpile_new(capacity) EXCEPT !.items = items]]

SourceItems ==
    {"wood" :> 10, "wood" :> 11, "wood" :> 13, "wood" :> 16,
     ("wood" :> 12) @@ ("planks" :> 11)}

\* <<capacity, items>> of the second stockpile
SecondStores ==
    {<<20, <<>> >>, <<20, "wood" :> 4>>, <<20, "wood" :> 5>>,
     <<4, "wood" :> 4>>, <<6, "wood" :> 4>>, <<20, "planks" :> 20>>}

ThirdItems == {<<>>, "wood" :> 15}

DistInit ==
    /\ game_tick = [current |-> MaxDistTicks - 5, target_tps |-> 20]
    /\ game_config = load_from_directory
    /\ \E first \in SourceItems, second \in SecondStores, third \in ThirdItems :
        entities = <<SavedStore(Position_new(10, 10), 20, first),
                     SavedStore(Position_new(12, 10), second[1], second[2]),
                     SavedStore(Position_new(14, 10), 20, third)>>
    /\ events = NoEvents
    /\ sim_out = StepOutput(<<>>)
    /\ sim_prev = entities
    /\ sim_sent = [place_building |-> 0, assign_worker |-> 0,
                   start_production |-> 0, map_changed |-> 0]
    /\ PathStart(0)
    /\ StockStart(0)
    /\ HostStart

DistNext == Tick(MaxDistTicks)

SpecDistribute == DistInit /\ [][DistNext]_vars

(***************************************************************************)
(* C30: auto-distribution schedules transfers only in updates whose tick   *)
(* is a multiple of 5 x target_tps.  In such an update, for each stockpile *)
(* and each item it holds more than 10 of, at most one TransferResource is *)
(* scheduled: to the first other stockpile that holds fewer than 5 of the  *)
(* item and has free space, with amount = min(quantity - 10, 5, free space *)
(* of the destination) >= 1.  Nothing is scheduled from a quantity of 10   *)
(* or less, nor to a stockpile that holds 5 or more or is full.            *)
(***************************************************************************)
Stores(ents) == QueryOrder(ents, {"Stockpile", "Position"})

Scheduled(evs, source, item) ==
    {i \in DOMAIN evs : evs[i].from = source /\ evs[i].resource = item}

InDeficit(ents, d, item) ==
    /\ get_item_count(ents[d].stockpile, item) < 5
    /\ available_space(ents[d].stockpile) > 0

\* the stockpiles other than source that can take the item, in query order
Takers(ents, source, item) ==
    {d \in Stores(ents) \ {source} : InDeficit(ents, d, item)}

DistributionPass(ents, evs) ==
    /\ \A i \in DOMAIN evs :
          /\ evs[i].from \in Stores(ents)
          /\ get_item_count(ents[evs[i].from].stockpile, evs[i].resource) > 10
          /\ evs[i].to \in Takers(ents, evs[i].from, evs[i].resource)
    /\ \A source \in Stores(ents) : \A item \in Items :
          IF /\ get_item_count(ents[source].stockpile, item) > 10
             /\ Takers(ents, source, item) # {}
          THEN /\ Cardinality(Scheduled(evs, source, item)) = 1
               /\ \A i \in Scheduled(evs, source, item) :
                     /\ evs[i].to = First(Takers(ents, source, item))
                     /\ evs[i].amount =
                           Min(Min(ents[source].stockpile.items[item] - 10, 5),
                               available_space(ents[evs[i].to].stockpile))
                     /\ evs[i].amount >= 1
          ELSE Scheduled(evs, source, item) = {}

C30_AutoDistribution ==
    [][game_tick' # game_tick =>
        IF game_tick'.current % (5 * game_tick'.target_tps) = 0
        THEN DistributionPass(entities', events'.transfer_resource)
        ELSE events'.transfer_resource = <<>>]_vars

\* the pass of tick 100 skipped the second stockpile for the third, and
\* cut an amount down to the space or the surplus there was
C30_Witness ==
    /\ game_tick.current % (5 * game_tick.target_tps) = 0
    /\ \E i \in DOMAIN events.transfer_resource :
          /\ events.transfer_resource[i].from = 1
          /\ events.transfer_resource[i].to = 3
    /\ \E i \in DOMAIN events.transfer_resource :
          events.transfer_resource[i].amount < 5

(***************************************************************************)
(* The staffed lumberjack, the sawmill and the two workers again, with a   *)
(* host that sends several AssignWorker requests: to a building, to the    *)
(* worker's own building, and to an entity that is not a building.         *)
(***************************************************************************)
ReassignWorkers ==
    {e \in QueryOrder(entities, {"Worker"}) :
        Cardinality({o \in QueryOrder(entities, {"Worker"}) : o < e}) < 2}

ReassignTargets ==
    QueryOrder(entities, {"Building"}) \cup {First(ReassignWorkers)}

\* send_event(AssignWorkerEvent { worker, building })
SendReassignWorker ==
    /\ sim_sent.assign_worker < MaxReassignments
    /\ \E worker \in ReassignWorkers, building \in ReassignTargets :
        events' = [events EXCEPT !.assign_worker =
                      Append(@, [worker |-> worker, building |-> building])]
    /\ sim_sent' = [sim_sent EXCEPT !.assign_worker = @ + 1]
    /\ UNCHANGED <<game_tick, game_config, entities, sim_out, sim_prev, pathVars,
                   stockVars, hostVars>>

ReassignNext == SendReassignWorker \/ Tick(MaxTicks)

SpecReassign == AssignInit /\ [][ReassignNext]_vars

\* the entities worker_assignment_system of the next update starts from,
\* and the entities after it has handled the first n pending requests
BeforeAssignment ==
    building_placement_system(advance_tick_system(World), game_config).entities

AssignedAfter(n) ==
    assignment_loop(BeforeAssignment, SubSeq(events.assign_worker, 1, n), 1)

NamesWorkerAndBuilding(b, ev) ==
    /\ Has(b, ev.worker, {"Worker"})
    /\ Has(b, ev.building, {"Building"})

Decremented(n) == IF n > 0 THEN n - 1 ELSE 0

\* the worker is assigned to another building than the one requested
AssignedElsewhere(b, ev) ==
    /\ b[ev.worker].worker.assigned_building # NoEntity
    /\ b[ev.worker].worker.assigned_building # ev.building
    /\ Has(b, b[ev.worker].worker.assigned_building, {"Building"})

OldBuildingReleased(b, a, ev) ==
    AssignedElsewhere(b, ev) =>
        a[b[ev.worker].worker.assigned_building].building.assigned_workers
          = Decremented(b[b[ev.worker].worker.assigned_building
                         ].building.assigned_workers)

WorkerTakenOn(a, ev) ==
    /\ a[ev.worker].worker.assigned_building = ev.building
    /\ a[ev.worker].worker.current_task = Idle

\* the effects as the claim words them, for a target below capacity
AssignEffects(b, a, ev) ==
    b[ev.building].building.assigned_workers
        < b[ev.building].building.worker_capacity
    => /\ WorkerTakenOn(a, ev)
       /\ a[ev.building].building.assigned_workers
            = b[ev.building].building.assigned_workers + 1
       /\ OldBuildingReleased(b, a, ev)

\* the target's count once the worker's previous assignment is released
CountAfterRelease(b, ev) ==
    IF b[ev.worker].worker.assigned_building = ev.building
    THEN Decremented(b[ev.building].building.assigned_workers)
    ELSE b[ev.building].building.assigned_workers

AssignEffectsAfterRelease(b, a, ev) ==
    CountAfterRelease(b, ev) < b[ev.building].building.worker_capacity
    => /\ WorkerTakenOn(a, ev)
       /\ a[ev.building].building.assigned_workers
            = CountAfterRelease(b, ev) + 1
       /\ OldBuildingReleased(b, a, ev)

C34_AssignedWithinCapacity ==
    \A e \in Buildings :
        entities[e].building.assigned_workers
            <= entities[e].building.worker_capacity

\* all requests were handled; the building for two was filled by two
\* accepted requests and was at capacity over the last update
C34_Witness ==
    /\ sim_sent.assign_worker = MaxReassignments
    /\ events.assign_worker = <<>>
    /\ \E e \in Buildings :
          /\ entities[e].building.worker_capacity = 2
          /\ entities[e].building.assigned_workers = 2
          /\ sim_prev # <<>>
          /\ sim_prev[e].building.assigned_workers = 2

\* the workers whose assigned_building is building e
WorkersOf(e) ==
    {o \in QueryOrder(entities, {"Worker"}) :
        entities[o].worker.assigned_building = e}

(***************************************************************************)
(* C35: in every reachable state every building's assigned_workers equals  *)
(* the number of workers whose assigned_building is that building.         *)
(***************************************************************************)
C35_CountMatchesWorkers ==
    \A e \in Buildings :
        entities[e].building.assigned_workers = Cardinality(WorkersOf(e))

\* the count never exceeds the number of workers assigned to the building
C35_CountNeverAboveWorkers ==
    \A e \in Buildings :
        entities[e].building.assigned_workers <= Cardinality(WorkersOf(e))

(***************************************************************************)
(* Two stockpiles of one archetype on an open grid and two workers; the    *)
(* host asks for transfers of wood between the stockpiles before the first *)
(* update, several of them for the same step.                              *)
(***************************************************************************)
\* <<capacity, items>> of the first and of the second stockpile
TransferStores ==
    {<< <<4, "wood" :> 2>>, <<4, <<>> >> >>,
     << <<2, "wood" :> 2>>, <<4, <<>> >> >>,
     << <<2, "wood" :> 2>>, <<1, "wood" :> 1>> >>}

\* [assigned_building, current_task, carrying] of the first worker
TransferWorkerStates ==
    {<<NoEntity, Idle, NoCargo>>,
     <<NoEntity, Idle, Cargo("wood", 1)>>,
     <<1, Idle, NoCargo>>,
     <<1, Working(1, F32Zero), NoCargo>>}

TransferInit ==
    /\ \E stores \in TransferStores, state \in TransferWorkerStates :
        SimStart(load_from_directory,
                 <<SavedStore(LumberjackCell, stores[1][1], stores[1][2]),
                   SavedStore(SawmillCell, stores[2][1], stores[2][2]),
                   SavedWorkerIn(state),
                   SavedWorkerIn(<<NoEntity, Idle, NoCargo>>)>>,
                 NoEvents)
    /\ map = MapData_new(MapWidth, MapHeight)
    /\ pcache = PathfindingCache_new(0)
    /\ fp_log = <<>>
    /\ fp_changed = FALSE
    /\ fp_edits = 0
    /\ StockStart(0)
    /\ HostStart

\* send_event(TransferResourceEvent { from, to, resource, amount }) between
\* the two stockpiles, for an amount the source may or may not hold
SendTransfer ==
    /\ game_tick.current = 0
    /\ Len(events.transfer_resource) < MaxTransfers
    /\ \E from \in {1, 2}, amount \in {1, 3} :
        events' = [events EXCEPT !.transfer_resource =
                      Append(@, TransferResourceEvent(from, 3 - from,
                                                      "wood", amount))]
    /\ UNCHANGED <<game_tick, game_config, entities, sim_out, sim_prev,
                   sim_sent, pathVars, stockVars, hostVars>>

TransferNext == SendTransfer \/ Tick(MaxTransferTicks)

SpecTransfer == TransferInit /\ [][TransferNext]_vars

\* the world transport_system of the next update starts from
BeforeTransport(bias) ==
    movement_system(pathfinding_system(AfterWorkerAI, bias))

\* the workers a transfer can be given to
Eligible(b) ==
    {e \in QueryOrder(b.entities, {"Worker", "Position"}) :
        /\ b.entities[e].worker.current_task = Idle
        /\ b.entities[e].worker.carrying = NoCargo}

\* the pending requests whose source holds the requested amount
Sufficient(b) ==
    {i \in DOMAIN b.events.transfer_resource :
        /\ Has(b.entities, b.events.transfer_resource[i].from,
               {"Position", "Stockpile"})
        /\ Has(b.entities, b.events.transfer_resource[i].to, {"Position"})
        /\ get_item_count(
             b.entities[b.events.transfer_resource[i].from].stockpile,
             b.events.transfer_resource[i].resource)
               >= b.events.transfer_resource[i].amount}

ChangedBy(b, a) == {e \in DOMAIN a.entities : a.entities[e] # b.entities[e]}

\* the task a worker is given for request ev
PickupTask(b, ev) ==
    MovingTo(b.entities[ev.from].position,
             PickupResource(ev.resource, ev.amount))

\* entity e is a worker that was eligible, is changed in nothing but its
\* task, and one path request from its position to the source is sent
GivenTransfer(b, a, e, ev) ==
    /\ e \in Eligible(b)
    /\ a.entities[e] =
         [b.entities[e] EXCEPT !.worker.current_task = PickupTask(b, ev)]
    /\ \E i \in AIRequests(b, a, e) :
          /\ AIRequests(b, a, e) = {i}
          /\ a.events.pathfinding_request[i] =
               PathfindingRequestEvent(e, b.entities[e].position,
                                       b.entities[ev.from].position)

TransfersGiven(b, a) ==
    /\ DOMAIN a.entities = DOMAIN b.entities
    /\ \A e \in ChangedBy(b, a) :
          \E i \in Sufficient(b) :
              GivenTransfer(b, a, e, b.events.transfer_resource[i])
    /\ Cardinality(ChangedBy(b, a))
         = Min(Cardinality(Eligible(b)), Cardinality(Sufficient(b)))
    /\ Len(a.events.pathfinding_request)
         = Len(b.events.pathfinding_request) + Cardinality(ChangedBy(b, a))
    /\ \A i \in Sufficient(b) :
          Cardinality({k \in Sufficient(b) : k <= i})
              <= Cardinality(Eligible(b))
          => \E e \in ChangedBy(b, a) :
                a.entities[e].worker.current_task
                  = PickupTask(b, b.events.transfer_resource[i])

(***************************************************************************)
(* C32: transport_system gives a TransferResource request only to a worker *)
(* that is Idle and carries nothing, and only if the source stockpile      *)
(* holds the requested amount; that worker becomes MovingTo{source         *)
(* position, PickupResource{item, amount}}.  The requests of one step go   *)
(* to distinct workers, and a request without an eligible worker or with   *)
(* an insufficient source changes no worker and no stockpile.              *)
(***************************************************************************)
C32_TransferGivenToIdleWorker ==
    \A bias \in {"low", "high"} :
        \A b \in {BeforeTransport(bias)} :
            \A a \in {transport_system(b)} : TransfersGiven(b, a)

\* two requests with a sufficient source are pending and the step gives
\* them to the two eligible workers
C32_Witness ==
    \E b \in {BeforeTransport("low")} :
        /\ Cardinality(Sufficient(b)) = 2
        /\ Cardinality(Eligible(b)) = 2
        /\ Cardinality(ChangedBy(b, transport_system(b))) = 2

\* one request asks for more than the source holds while a worker is
\* eligible, and the step changes nothing
C32_WitnessInsufficient ==
    \E b \in {BeforeTransport("low")} :
        /\ b.events.transfer_resource # <<>>
        /\ Sufficient(b) = {}
        /\ Eligible(b) # {}
        /\ ChangedBy(b, transport_system(b)) = {}

\* the quantity of an item in all stockpiles and in the workers' hands
StoredQuantity(ents, item) ==
    SumOver([e \in QueryOrder(ents, {"Stockpile"})
                |-> get_item_count(ents[e].stockpile, item)],
            QueryOrder(ents, {"Stockpile"}))

CarriedQuantity(ents, item) ==
    SumOver([e \in QueryOrder(ents, {"Worker"})
                |-> IF ents[e].worker.carrying.some
                       /\ ents[e].worker.carrying.item = item
                    THEN ents[e].worker.carrying.amount ELSE 0],
            QueryOrder(ents, {"Worker"}))

TotalQuantity(ents, item) ==
    StoredQuantity(ents, item) + CarriedQuantity(ents, item)

\* the workers whose "delivery" completion the last update has handled
Delivered ==
    {sim_out.task_completed[i].worker :
        i \in {k \in DOMAIN sim_out.task_completed :
                  sim_out.task_completed[k].task_type = "delivery"}}

(***************************************************************************)
(* C33: transport moves resources.  Over every update the quantity of each *)
(* item in all stockpiles plus the workers' cargo is unchanged, and when   *)
(* the delivery of a worker has been handled the amount it carried has     *)
(* arrived in a stockpile: the stored quantity grew by the cargo given up. *)
(***************************************************************************)
C33_TransportConservesItems ==
    \A item \in Items :
        /\ TotalQuantity(entities, item) = TotalQuantity(sim_prev, item)
        /\ Delivered # {} =>
              StoredQuantity(entities, item) - StoredQuantity(sim_prev, item)
                = CarriedQuantity(sim_prev, item)
                    - CarriedQuantity(entities, item)

\* a delivery was handled and no stockpile holds more than before
C33_DeliveryAddsNothing ==
    Delivered # {} =>
        \A e \in QueryOrder(entities, {"Stockpile"}) :
            entities[e].stockpile = sim_prev[e].stockpile

\* the workers whose "pickup" completion the last update has handled
PickedUp ==
    {sim_out.task_completed[i].worker :
        i \in {k \in DOMAIN sim_out.task_completed :
                  sim_out.task_completed[k].task_type = "pickup"}}

\* the TransferResource requests the host has sent for a pickup of this
\* item and amount at this position: all requests are sent before the first
\* update and name the two stockpiles
RequestsFor(source, item, amount) ==
    {ev \in {TransferResourceEvent(from, 3 - from, item, amount) :
                from \in {1, 2}} :
        entities[ev.from].position = source}

(***************************************************************************)
(* C39: the Carrying task started after the pickup for a request           *)
(* TransferResource{from, to, item, amount} has its `to` equal to the      *)
(* Position of the request's `to` entity, and not the position of the      *)
(* source stockpile.                                                       *)
(***************************************************************************)
C39_CarriedToRequestedDestination ==
    \A e \in PickedUp :
        entities[e].worker.current_task.kind = "Carrying" =>
            \A ev \in RequestsFor(entities[e].worker.current_task.from,
                                  entities[e].worker.current_task.item,
                                  entities[e].worker.current_task.amount) :
                entities[e].worker.current_task.to = entities[ev.to].position

\* steps keep being run: tick() is called again and again
TransferTickTaken ==
    /\ game_tick.current < MaxTransferTicks
    /\ game_tick' = [game_tick EXCEPT !.current = @ + 1]

SpecTransferFair == SpecTransfer /\ WF_game_tick(TransferTickTaken)

TransferWorkers == 3..4

\* the cargo of worker e was set by a pickup the last update handled
CargoFromPickup(e) ==
    /\ e \in PickedUp
    /\ entities[e].worker.carrying # NoCargo

\* worker e holds cargo, has no task, no completion is pending for it and
\* no stockpile has room for what it holds
HoldsCargoWithoutTask(e) ==
    /\ entities[e].worker.carrying # NoCargo
    /\ entities[e].worker.current_task = Idle
    /\ entities[e].worker.assigned_building = NoEntity
    /\ events.task_completed = <<>>
    /\ carry_destination(entities, entities[e].worker.carrying.amount)
         = NoEntity

(***************************************************************************)
(* C40: while updates keep being run on a grid where every requested path  *)
(* exists, a worker whose cargo was set by a pickup eventually has its     *)
(* cargo cleared again: carrying returns to None.                          *)
(***************************************************************************)
C40_CargoEventuallyCleared ==
    \A e \in TransferWorkers :
        CargoFromPickup(e) ~> (entities[e].worker.carrying = NoCargo)

\* a worker that holds cargo without a task, while no stockpile has room,
\* is left as it is by every update that gets no new requests
C40_HoldsCargoIsFixpoint ==
    [][\A e \in TransferWorkers :
          (game_tick' # game_tick /\ HoldsCargoWithoutTask(e)
             /\ events.transfer_resource = <<>>)
          => /\ entities'[e] = entities[e]
             /\ HoldsCargoWithoutTask(e)']_vars

\* a worker that was given a Carrying task after its pickup does get rid
\* of its cargo
C40_CarryingIsDelivered ==
    \A e \in TransferWorkers :
        (CargoFromPickup(e)
           /\ entities[e].worker.current_task.kind = "Carrying")
        ~> (entities[e].worker.carrying = NoCargo)

(***************************************************************************)
(* C36: whatever PlaceBuilding requests were sent, several of them for the *)
(* same step included, no two Building entities have the same Position.    *)
(***************************************************************************)
C36_NoTwoBuildingsAtOnePosition ==
    \A e \in Buildings : \A o \in Buildings :
        entities[e].position = entities[o].position => e = o

\* a building placed by an update never has the position of a building
\* that existed before that update
C36_NewBuildingOffExisting ==
    \A e \in Buildings :
        e > Len(sim_prev) =>
            entities[e].position \notin BuildingPositions(sim_prev)

\* path is a sequence of 8-adjacent positions of the grid, passable from
\* the second waypoint on
WalkablePath(path) ==
    /\ \A i \in DOMAIN path : path[i] \in GridPositions
    /\ \A i \in 2..Len(path) :
          /\ Adjacent8(path[i - 1], path[i])
          /\ is_passable(map.tiles[path[i]])

(***************************************************************************)
(* C37: every path find_path returns, computed or served from the cache,   *)
(* is a sequence of 8-adjacent in-bounds positions whose waypoints after   *)
(* the first are passable in the grid passed to that call, whatever edits  *)
(* and calls came before.                                                  *)
(***************************************************************************)
C37_ReturnedPathIsWalkable ==
    (JustCalled /\ LastCall.result.some) => WalkablePath(LastCall.result.path)

\* a path computed on a cache miss is walkable in the grid of the call
C37_ComputedPathIsWalkable ==
    (JustCalled /\ LastCall.result.some /\ LastCall.misses = 1)
        => WalkablePath(LastCall.result.path)

\* what the recipe of producer e puts out, summed over the items
NominalOutput(recipe) == SumOver(recipe.outputs, DOMAIN recipe.outputs)

OutputsInFull(e, ev, recipe) ==
    /\ ev.outputs = recipe.outputs
    /\ available_space(sim_prev[e].stockpile) >= NominalOutput(recipe)
    /\ \A item \in Items :
          get_item_count(entities[e].stockpile, item)
            = get_item_count(sim_prev[e].stockpile, item)
                - InputOf(recipe, item) + OutputOf(recipe.outputs, item)

(***************************************************************************)
(* C38: whenever production completes every output of the recipe is added  *)
(* in full: the quantities of the ProductionCompleted notification are the *)
(* recipe's output quantities and the stockpile holds that much more,      *)
(* since the stockpile the step started from had free space for the sum of *)
(* the outputs before the inputs were taken out.                           *)
(***************************************************************************)
C38_OutputsAddedInFull ==
    \A e \in Producers :
        e <= Len(sim_prev) =>
            \A i \in CompletedEvents(e) :
                OutputsInFull(e, sim_out.production_completed[i],
                    game_config.recipes[entities[e].producer.recipe_id])

\* a completion of make_planks: the stockpile had room for 3 items, gave
\* up its 1 wood and took 2 planks
C38_Witness ==
    \E e \in Producers :
        /\ e <= Len(sim_prev)
        /\ \E i \in CompletedEvents(e) :
              sim_out.production_completed[i].recipe_id = "Make Planks"
        /\ available_space(sim_prev[e].stockpile) = 3
        /\ get_item_count(entities[e].stockpile, "planks") = 2
        /\ available_space(entities[e].stockpile) = 2
====
